---- MODULE Spec2Model ----
(***************************************************************************)
(* Model of the transform-program interpreter of app/services/dsl.py:      *)
(* the safe expression evaluator (_eval_expr), the row-wise and scan       *)
(* operations built on it, and the step loop of execute_dsl.               *)
(*                                                                         *)
(* Python values are records [t, n, d, s]: t is the Python type name,      *)
(* n/d the numeric value as a fraction in lowest terms (d = 1 for int and  *)
(* bool), s the characters of a str (or the name of a built-in function).  *)
(* Python dicts whose iteration order matters (update, rows of a payload)  *)
(* are sequences of <<key, value>> pairs; a step is a record that has      *)
(* exactly the keys the JSON step has.                                     *)
(***************************************************************************)
EXTENDS Integers, Sequences, FiniteSets, TLC

VARIABLES
    input_payload,  \* execute_dsl argument: the inline input
    dsl,            \* execute_dsl argument: [steps |-> <<step, ...>>]
    null_mask_ok,   \* build of the dataframe library: does filter accept an empty, untyped mask
    desc_nulls_last, \* build of the dataframe library: does a descending sort put nulls last
    pc,             \* "decode", "loop", "scan", "returned", "raised", "idle"
    df,             \* the current DataFrame of execute_dsl
    step_no,        \* 0-based position of the for loop over dsl.steps
    applied,        \* history: 0-based indexes of the steps applied so far
    op_step,        \* the step executed last (operation specification)
    repeated,       \* history: the step executed last repeats the one before it
    twin,           \* a second execute_dsl call on the same program and input
    funcs,          \* the module-level table _ALLOWED_FUNCS, shared by all executions
    threads,        \* the executions that run concurrently (concurrency specification)
    scan,           \* locals of _apply_scan while a scan step runs
    result,         \* the value execute_dsl returns
    raised,         \* the exception that leaves execute_dsl
    expr,           \* _eval_expr argument (expression specification)
    env,            \* _eval_expr argument (expression specification)
    value           \* what _eval_expr produced for (expr, env)

vars == <<input_payload, dsl, null_mask_ok, desc_nulls_last, pc, df, step_no, applied, op_step, repeated, twin, funcs, threads,
          scan, result, raised, expr, env, value>>

-----------------------------------------------------------------------------
(* Python values *)

PyNone == [t |-> "NoneType", n |-> 0, d |-> 1, s |-> <<>>]
PyBool(b) == [t |-> "bool", n |-> IF b THEN 1 ELSE 0, d |-> 1, s |-> <<>>]
PyInt(i) == [t |-> "int", n |-> i, d |-> 1, s |-> <<>>]
PyStr(chars) == [t |-> "str", n |-> 0, d |-> 1, s |-> chars]
PyFunc(name) == [t |-> "builtin_function_or_method", n |-> 0, d |-> 1, s |-> <<name>>]

Abs(i) == IF i < 0 THEN -i ELSE i

RECURSIVE Gcd(_, _)
Gcd(a, b) == IF b = 0 THEN a ELSE Gcd(b, a % b)

\* floor(a / b) for any b # 0, as Python's // on ints
FloorDiv(a, b) == IF b > 0 THEN a \div b ELSE (-a) \div (-b)

\* a float holding the fraction num / den (den # 0), in lowest terms
PyFloat(num, den) ==
    LET g == Gcd(Abs(num), Abs(den))
        sgn == IF den < 0 THEN -1 ELSE 1
    IN  [t |-> "float", n |-> sgn * (num \div g), d |-> sgn * (den \div g), s |-> <<>>]

IsNumber(v) == v.t \in {"bool", "int", "float"}
IsIntegral(v) == v.t \in {"bool", "int"}

\* bool(v)
Truthy(v) ==
    CASE v.t = "NoneType" -> FALSE
      [] IsNumber(v) -> v.n # 0
      [] v.t = "str" -> Len(v.s) > 0
      [] OTHER -> TRUE

\* characters that occur in the modelled strings, with their code points
CharCode ==
    ("-" :> 45) @@ ("." :> 46) @@ ("0" :> 48) @@ ("1" :> 49) @@ ("2" :> 50) @@
    ("3" :> 51) @@ ("4" :> 52) @@ ("5" :> 53) @@ ("6" :> 54) @@ ("7" :> 55) @@
    ("8" :> 56) @@ ("9" :> 57) @@ ("F" :> 70) @@ ("N" :> 78) @@ ("T" :> 84) @@
    ("a" :> 97) @@ ("b" :> 98) @@ ("e" :> 101) @@ ("l" :> 108) @@ ("n" :> 110) @@
    ("o" :> 111) @@ ("r" :> 114) @@ ("s" :> 115) @@ ("u" :> 117)

Digits == <<"0", "1", "2", "3", "4", "5", "6", "7", "8", "9">>
IsDigit(c) == \E i \in 1..10 : Digits[i] = c
DigitValue(c) == (CHOOSE i \in 1..10 : Digits[i] = c) - 1

\* lexicographic order of str by code point
RECURSIVE StrLess(_, _)
StrLess(a, b) ==
    IF Len(b) = 0 THEN FALSE
    ELSE IF Len(a) = 0 THEN TRUE
    ELSE IF Head(a) = Head(b) THEN StrLess(Tail(a), Tail(b))
    ELSE CharCode[Head(a)] < CharCode[Head(b)]

\* sub in text, for two str
IsSubstring(sub, text) ==
    \E i \in 0..(Len(text) - Len(sub)) : SubSeq(text, i + 1, i + Len(sub)) = sub

RECURSIVE Repeat(_, _)
Repeat(chars, k) == IF k <= 0 THEN <<>> ELSE chars \o Repeat(chars, k - 1)

-----------------------------------------------------------------------------
(* Outcome of evaluating Python code: a value, or a raised exception *)

NoExc == "none"
DSLExecutionError == "DSLExecutionError"

Ok(v) == [exc |-> NoExc, msg |-> "", v |-> v]
Raise(exc, msg) == [exc |-> exc, msg |-> msg, v |-> PyNone]
IsExc(r) == r.exc # NoExc

-----------------------------------------------------------------------------
(* Operator tables of the expression evaluator *)

\* arithmetic of two numbers; the result is an int when both operands are
\* int or bool and the operator is not true division, else a float
NumResult(a, b, num, den) ==
    IF IsIntegral(a) /\ IsIntegral(b) THEN Ok(PyInt(num \div den)) ELSE Ok(PyFloat(num, den))

TypeErr == Raise("TypeError", "unsupported operand type(s)")

\* operator.add
PyAdd(a, b) ==
    CASE IsNumber(a) /\ IsNumber(b) -> NumResult(a, b, a.n * b.d + b.n * a.d, a.d * b.d)
      [] a.t = "str" /\ b.t = "str" -> Ok(PyStr(a.s \o b.s))
      [] OTHER -> TypeErr

\* operator.sub
PySub(a, b) ==
    IF IsNumber(a) /\ IsNumber(b)
    THEN NumResult(a, b, a.n * b.d - b.n * a.d, a.d * b.d)
    ELSE TypeErr

\* operator.mul
PyMul(a, b) ==
    CASE IsNumber(a) /\ IsNumber(b) -> NumResult(a, b, a.n * b.n, a.d * b.d)
      [] a.t = "str" /\ IsIntegral(b) -> Ok(PyStr(Repeat(a.s, b.n)))
      [] IsIntegral(a) /\ b.t = "str" -> Ok(PyStr(Repeat(b.s, a.n)))
      [] OTHER -> TypeErr

\* operator.truediv
PyTrueDiv(a, b) ==
    IF IsNumber(a) /\ IsNumber(b)
    THEN IF b.n = 0 THEN Raise("ZeroDivisionError", "division by zero")
         ELSE Ok(PyFloat(a.n * b.d, a.d * b.n))
    ELSE TypeErr

\* operator.mod: x - y * floor(x / y) for numbers. For a str left operand it
\* is printf-style formatting; the modelled strings hold no conversion
\* specifier, so a (non-tuple, non-mapping) right operand is left unconverted.
PyMod(a, b) ==
    CASE IsNumber(a) /\ IsNumber(b) ->
            IF b.n = 0 THEN Raise("ZeroDivisionError", "modulo by zero")
            ELSE LET q == FloorDiv(a.n * b.d, a.d * b.n)
                 IN  NumResult(a, b, a.n * b.d - q * b.n * a.d, a.d * b.d)
      [] a.t = "str" ->
            Raise("TypeError", "not all arguments converted during string formatting")
      [] OTHER -> TypeErr

_ALLOWED_BINOPS == {"Add", "Sub", "Mult", "Div", "Mod"}

ApplyBinOp(op, a, b) ==
    CASE op = "Add" -> PyAdd(a, b)
      [] op = "Sub" -> PySub(a, b)
      [] op = "Mult" -> PyMul(a, b)
      [] op = "Div" -> PyTrueDiv(a, b)
      [] op = "Mod" -> PyMod(a, b)

_ALLOWED_BOOL_OPS == {"And", "Or"}

\* == of two values
PyEq(a, b) ==
    CASE IsNumber(a) /\ IsNumber(b) -> a.n * b.d = b.n * a.d
      [] a.t = "str" /\ b.t = "str" -> a.s = b.s
      [] a.t = b.t /\ ~IsNumber(a) -> a.s = b.s
      [] OTHER -> FALSE

\* a < b, for operands Python orders
PyLess(a, b) ==
    IF IsNumber(a) THEN a.n * b.d < b.n * a.d ELSE StrLess(a.s, b.s)

Orderable(a, b) ==
    \/ IsNumber(a) /\ IsNumber(b)
    \/ a.t = "str" /\ b.t = "str"

\* object identity: None, True, False, small ints, interned short strings and
\* the built-in functions are single objects; every float is a fresh object
PyIs(a, b) == a.t = b.t /\ a.t # "float" /\ a.n = b.n /\ a.s = b.s

\* left in right
PyIn(a, b) ==
    IF b.t # "str" THEN Raise("TypeError", "argument is not iterable")
    ELSE IF a.t # "str"
         THEN Raise("TypeError", "'in <string>' requires string as left operand")
         ELSE Ok(PyBool(IsSubstring(a.s, b.s)))

NotSupported == Raise("TypeError", "comparison not supported between instances")

_ALLOWED_CMP_OPS ==
    {"Eq", "NotEq", "Lt", "LtE", "Gt", "GtE", "Is", "IsNot", "In", "NotIn"}

ApplyCmpOp(op, a, b) ==
    CASE op = "Eq" -> Ok(PyBool(PyEq(a, b)))
      [] op = "NotEq" -> Ok(PyBool(~PyEq(a, b)))
      [] op = "Lt" -> IF Orderable(a, b) THEN Ok(PyBool(PyLess(a, b))) ELSE NotSupported
      [] op = "LtE" -> IF Orderable(a, b) THEN Ok(PyBool(~PyLess(b, a))) ELSE NotSupported
      [] op = "Gt" -> IF Orderable(a, b) THEN Ok(PyBool(PyLess(b, a))) ELSE NotSupported
      [] op = "GtE" -> IF Orderable(a, b) THEN Ok(PyBool(~PyLess(a, b))) ELSE NotSupported
      [] op = "Is" -> Ok(PyBool(PyIs(a, b)))
      [] op = "IsNot" -> Ok(PyBool(~PyIs(a, b)))
      [] op = "In" -> PyIn(a, b)
      [] op = "NotIn" ->
            LET r == PyIn(a, b) IN IF IsExc(r) THEN r ELSE Ok(PyBool(~Truthy(r.v)))

_ALLOWED_UNARY == {"USub", "UAdd", "Not"}

ApplyUnary(op, x) ==
    CASE op = "USub" ->
            IF IsIntegral(x) THEN Ok(PyInt(-x.n))
            ELSE IF x.t = "float" THEN Ok(PyFloat(-x.n, x.d))
            ELSE Raise("TypeError", "bad operand type for unary -")
      [] op = "UAdd" -> Ok(x)
      [] op = "Not" -> Ok(PyBool(~Truthy(x)))

-----------------------------------------------------------------------------
(* Built-in functions. The modelled part of the table: len, abs, ifelse,   *)
(* coalesce_val.                                                           *)

_ifelse(cond, a, b) == IF Truthy(cond) THEN a ELSE b

RECURSIVE _coalesce_val(_)
_coalesce_val(args) ==
    IF Len(args) = 0 THEN PyNone
    ELSE IF Head(args).t # "NoneType" THEN Head(args)
    ELSE _coalesce_val(Tail(args))

FuncNames == {"len", "abs", "ifelse", "coalesce_val"}

_ALLOWED_FUNCS == [name \in FuncNames |-> PyFunc(name)]

ArityErr == Raise("TypeError", "wrong number of arguments")

\* func(*args) for the function the table holds under name
CallFunc(name, args) ==
    CASE name = "len" ->
            IF Len(args) # 1 THEN ArityErr
            ELSE IF args[1].t = "str" THEN Ok(PyInt(Len(args[1].s)))
            ELSE Raise("TypeError", "object has no len()")
      [] name = "abs" ->
            IF Len(args) # 1 THEN ArityErr
            ELSE IF IsIntegral(args[1]) THEN Ok(PyInt(Abs(args[1].n)))
            ELSE IF args[1].t = "float" THEN Ok(PyFloat(Abs(args[1].n), args[1].d))
            ELSE Raise("TypeError", "bad operand type for abs()")
      [] name = "ifelse" ->
            IF Len(args) # 3 THEN ArityErr ELSE Ok(_ifelse(args[1], args[2], args[3]))
      [] name = "coalesce_val" -> Ok(_coalesce_val(args))

-----------------------------------------------------------------------------
(* Expressions. An expression text is [src |-> "tree", tree |-> node] when  *)
(* Python's grammar parses it to node, [src |-> "empty"] for the empty      *)
(* string and [src |-> "invalid"] for any other text the grammar rejects.   *)
(* Nodes are the ast classes with their fields.                             *)

Constant(v) == [node |-> "Constant", value |-> v]
Name(id) == [node |-> "Name", id |-> id]
UnaryOp(op, operand) == [node |-> "UnaryOp", op |-> op, operand |-> operand]
BoolOp(op, values) == [node |-> "BoolOp", op |-> op, values |-> values]
BinOp(left, op, right) == [node |-> "BinOp", left |-> left, op |-> op, right |-> right]
Compare(left, ops, comparators) ==
    [node |-> "Compare", left |-> left, ops |-> ops, comparators |-> comparators]
Call(func, args, keywords) ==
    [node |-> "Call", func |-> func, args |-> args, keywords |-> keywords]
IfExp(test, body, orelse) == [node |-> "IfExp", test |-> test, body |-> body, orelse |-> orelse]
Attribute(val, attr) == [node |-> "Attribute", value |-> val, attr |-> attr]
Subscript(val, slice) == [node |-> "Subscript", value |-> val, slice |-> slice]

Text(tree) == [src |-> "tree", tree |-> tree]
EmptyText == [src |-> "empty"]
InvalidText == [src |-> "invalid"]

\* ast.parse(expr, mode="eval")
ast_parse(text) ==
    IF text.src = "tree" THEN [exc |-> NoExc, msg |-> "", tree |-> text.tree]
    ELSE [exc |-> "SyntaxError", msg |-> "invalid syntax", tree |-> Constant(PyNone)]

RECURSIVE _eval(_, _)
RECURSIVE EvalAnd(_, _, _)
RECURSIVE EvalOr(_, _, _)
RECURSIVE EvalOrOperand(_, _, _)
RECURSIVE EvalCompare(_, _, _, _, _)
RECURSIVE EvalArgs(_, _, _)

\* for v in n.values: result = bool(result and _eval(v)); break when falsy
EvalAnd(values, i, e) ==
    IF i > Len(values) THEN Ok(PyBool(TRUE))
    ELSE LET x == _eval(values[i], e)
         IN  IF IsExc(x) THEN x
             ELSE IF ~Truthy(x.v) THEN Ok(PyBool(FALSE))
             ELSE EvalAnd(values, i + 1, e)

\* faulty variant of EvalOr (Python's own `or`): the deciding operand itself
\* is the result
EvalOrOperand(values, i, e) ==
    IF i > Len(values) THEN Ok(PyBool(FALSE))
    ELSE LET x == _eval(values[i], e)
         IN  IF IsExc(x) THEN x
             ELSE IF Truthy(x.v) THEN Ok(x.v)
             ELSE EvalOrOperand(values, i + 1, e)

\* for v in n.values: result = bool(result or _eval(v)); break when truthy
EvalOr(values, i, e) ==
    IF i > Len(values) THEN Ok(PyBool(FALSE))
    ELSE LET x == _eval(values[i], e)
         IN  IF IsExc(x) THEN x
             ELSE IF Truthy(x.v) THEN Ok(PyBool(TRUE))
             ELSE EvalOr(values, i + 1, e)

\* the loop over zip(n.ops, n.comparators), left already evaluated
EvalCompare(left, ops, comparators, i, e) ==
    IF i > Len(ops) \/ i > Len(comparators) THEN Ok(PyBool(TRUE))
    ELSE IF ops[i] \notin _ALLOWED_CMP_OPS
         THEN Raise(DSLExecutionError, "Comparator not allowed")
    ELSE LET right == _eval(comparators[i], e)
         IN  IF IsExc(right) THEN right
             ELSE LET c == ApplyCmpOp(ops[i], left, right.v)
                  IN  IF IsExc(c) THEN c
                      ELSE IF ~Truthy(c.v) THEN Ok(PyBool(FALSE))
                      ELSE EvalCompare(right.v, ops, comparators, i + 1, e)

\* [_eval(a) for a in n.args]: the values in .args, or the first exception
EvalArgs(args, i, e) ==
    IF i > Len(args) THEN [exc |-> NoExc, msg |-> "", args |-> <<>>]
    ELSE LET x == _eval(args[i], e)
         IN  IF IsExc(x) THEN [exc |-> x.exc, msg |-> x.msg, args |-> <<>>]
             ELSE LET rest == EvalArgs(args, i + 1, e)
                  IN  IF rest.exc # NoExc THEN rest
                      ELSE [exc |-> NoExc, msg |-> "", args |-> <<x.v>> \o rest.args]

\* faulty variant of _eval: a call looks its function up in the environment,
\* where a column or a state variable may hide it
_evalCallFromEnv(n, e) ==
    CASE n.node = "Constant" -> Ok(n.value)
      [] n.node = "Name" ->
            IF n.id \in DOMAIN e THEN Ok(e[n.id])
            ELSE Raise(DSLExecutionError, "Unknown name in expression")
      [] n.node = "UnaryOp" /\ n.op \in _ALLOWED_UNARY ->
            LET x == _eval(n.operand, e)
            IN  IF IsExc(x) THEN x ELSE ApplyUnary(n.op, x.v)
      [] n.node = "BoolOp" /\ n.op \in _ALLOWED_BOOL_OPS ->
            IF n.op = "And" THEN EvalAnd(n.values, 1, e) ELSE EvalOr(n.values, 1, e)
      [] n.node = "BinOp" /\ n.op \in _ALLOWED_BINOPS ->
            \* the operands are evaluated inside the try: whatever is raised,
            \* by them or by the operator, is re-raised as DSLExecutionError
            LET l == _eval(n.left, e)
                r == _eval(n.right, e)
            IN  IF IsExc(l) \/ IsExc(r) \/ IsExc(ApplyBinOp(n.op, l.v, r.v))
                THEN Raise(DSLExecutionError, "Expression evaluation failed")
                ELSE ApplyBinOp(n.op, l.v, r.v)
      [] n.node = "Compare" ->
            LET left == _eval(n.left, e)
            IN  IF IsExc(left) THEN left
                ELSE EvalCompare(left.v, n.ops, n.comparators, 1, e)
      [] n.node = "Call" ->
            IF /\ n.func.node = "Name" /\ n.func.id \in DOMAIN e
               /\ e[n.func.id] = PyFunc(n.func.id)
            THEN LET a == EvalArgs(n.args, 1, e)
                 IN  IF a.exc # NoExc THEN Raise(a.exc, a.msg)
                     ELSE IF n.keywords # <<>>
                          THEN Raise(DSLExecutionError, "Keywords not allowed in expressions")
                     ELSE IF IsExc(CallFunc(n.func.id, a.args))
                          THEN Raise(DSLExecutionError, "Function call failed")
                     ELSE CallFunc(n.func.id, a.args)
            ELSE Raise(DSLExecutionError, "Function not allowed in expressions")
      [] n.node = "IfExp" ->
            LET t == _eval(n.test, e)
            IN  IF IsExc(t) THEN t
                ELSE IF Truthy(t.v) THEN _eval(n.body, e) ELSE _eval(n.orelse, e)
      [] OTHER -> Raise(DSLExecutionError, "Expression element not allowed")

_eval(n, e) ==
    CASE n.node = "Constant" -> Ok(n.value)
      [] n.node = "Name" ->
            IF n.id \in DOMAIN e THEN Ok(e[n.id])
            ELSE Raise(DSLExecutionError, "Unknown name in expression")
      [] n.node = "UnaryOp" /\ n.op \in _ALLOWED_UNARY ->
            LET x == _eval(n.operand, e)
            IN  IF IsExc(x) THEN x ELSE ApplyUnary(n.op, x.v)
      [] n.node = "BoolOp" /\ n.op \in _ALLOWED_BOOL_OPS ->
            IF n.op = "And" THEN EvalAnd(n.values, 1, e) ELSE EvalOr(n.values, 1, e)
      [] n.node = "BinOp" /\ n.op \in _ALLOWED_BINOPS ->
            \* the operands are evaluated inside the try: whatever is raised,
            \* by them or by the operator, is re-raised as DSLExecutionError
            LET l == _eval(n.left, e)
                r == _eval(n.right, e)
            IN  IF IsExc(l) \/ IsExc(r) \/ IsExc(ApplyBinOp(n.op, l.v, r.v))
                THEN Raise(DSLExecutionError, "Expression evaluation failed")
                ELSE ApplyBinOp(n.op, l.v, r.v)
      [] n.node = "Compare" ->
            LET left == _eval(n.left, e)
            IN  IF IsExc(left) THEN left
                ELSE EvalCompare(left.v, n.ops, n.comparators, 1, e)
      [] n.node = "Call" ->
            IF n.func.node = "Name" /\ n.func.id \in DOMAIN _ALLOWED_FUNCS
            THEN LET a == EvalArgs(n.args, 1, e)
                 IN  IF a.exc # NoExc THEN Raise(a.exc, a.msg)
                     ELSE IF n.keywords # <<>>
                          THEN Raise(DSLExecutionError, "Keywords not allowed in expressions")
                     ELSE IF IsExc(CallFunc(n.func.id, a.args))
                          THEN Raise(DSLExecutionError, "Function call failed")
                     ELSE CallFunc(n.func.id, a.args)
            ELSE Raise(DSLExecutionError, "Function not allowed in expressions")
      [] n.node = "IfExp" ->
            LET t == _eval(n.test, e)
            IN  IF IsExc(t) THEN t
                ELSE IF Truthy(t.v) THEN _eval(n.body, e) ELSE _eval(n.orelse, e)
      [] OTHER -> Raise(DSLExecutionError, "Expression element not allowed")

_eval_expr(text, e) ==
    IF IsExc(ast_parse(text))
    THEN Raise(DSLExecutionError, "Invalid expression syntax")
    ELSE _eval(ast_parse(text).tree, e)

-----------------------------------------------------------------------------
(* Specification of the evaluator alone: _eval_expr applied to every       *)
(* expression of ExprTexts in every environment of Envs.                   *)

\* operand-free leaves and names; zz is bound in no environment
Atoms ==
    {Constant(PyNone), Constant(PyBool(TRUE)), Constant(PyInt(0)), Constant(PyInt(1)),
     Constant(PyStr(<<"a">>)), Name("x"), Name("y"), Name("zz"), Name("len")}

FewAtoms == {Constant(PyNone), Constant(PyBool(TRUE)), Constant(PyInt(0)), Name("x")}

\* sub-expressions placed inside every kind of parent
Inner ==
    {Attribute(Name("x"), "y"), Subscript(Name("x"), Constant(PyInt(0))), Name("zz"),
     UnaryOp("USub", Name("x")), BinOp(Name("x"), "Add", Name("y"))}

UnaryOps == _ALLOWED_UNARY \union {"Invert"}
BinOps == _ALLOWED_BINOPS \union {"Pow"}

Depth1 ==
    {UnaryOp(op, a) : op \in UnaryOps, a \in Atoms}
    \union {BinOp(a, op, b) : a \in Atoms, op \in BinOps, b \in Atoms}
    \union {BoolOp(op, <<a, b>>) : op \in _ALLOWED_BOOL_OPS, a \in Atoms, b \in Atoms}
    \union {Compare(a, <<op>>, <<b>>) : a \in Atoms, op \in _ALLOWED_CMP_OPS, b \in Atoms}
    \union {Compare(a, <<op, "Lt">>, <<b, Constant(PyInt(1))>>) :
                a \in FewAtoms, op \in {"Lt", "Eq", "Is"}, b \in FewAtoms}
    \union {IfExp(t, b, o) : t \in Atoms, b \in FewAtoms, o \in FewAtoms}
    \union {Call(Name(f), <<>>, <<>>) : f \in {"len", "coalesce_val", "zz", "x"}}
    \union {Call(Name(f), <<a>>, <<>>) : f \in FuncNames \union {"zz", "x"}, a \in Atoms}
    \union {Call(Name(f), <<a, b>>, <<>>) : f \in {"len", "coalesce_val"}, a \in FewAtoms, b \in Atoms}
    \union {Call(Name("ifelse"), <<t, Constant(PyInt(1)), b>>, <<>>) : t \in Atoms, b \in FewAtoms}
    \union {Call(Name("len"), <<a>>, <<"k">>) : a \in FewAtoms}
    \union {Call(Attribute(Name("x"), "y"), <<a>>, <<>>) : a \in FewAtoms}
    \union {Attribute(a, "y") : a \in Atoms}
    \union {Subscript(a, Constant(PyInt(0))) : a \in Atoms}

Depth2 ==
    {UnaryOp(op, h) : op \in _ALLOWED_UNARY, h \in Inner}
    \union {BinOp(h, op, k) : h \in Inner, op \in _ALLOWED_BINOPS, k \in FewAtoms}
    \union {BinOp(k, op, h) : h \in Inner, op \in _ALLOWED_BINOPS, k \in FewAtoms}
    \union {BoolOp(op, <<k, h>>) : op \in _ALLOWED_BOOL_OPS, h \in Inner, k \in FewAtoms}
    \union {BoolOp(op, <<h, k>>) : op \in _ALLOWED_BOOL_OPS, h \in Inner, k \in FewAtoms}
    \union {BoolOp(op, <<k, j, h>>) :
                op \in _ALLOWED_BOOL_OPS, h \in Inner, k \in FewAtoms, j \in FewAtoms}
    \union {Compare(k, <<op>>, <<h>>) : op \in _ALLOWED_CMP_OPS, h \in Inner, k \in FewAtoms}
    \union {Compare(h, <<op>>, <<k>>) : op \in _ALLOWED_CMP_OPS, h \in Inner, k \in FewAtoms}
    \union {Compare(k, <<op, "Lt">>, <<j, h>>) :
                op \in {"Lt", "Eq"}, h \in Inner, k \in FewAtoms, j \in FewAtoms}
    \union {IfExp(h, k, j) : h \in Inner, k \in FewAtoms, j \in FewAtoms}
    \union {IfExp(k, h, j) : h \in Inner, k \in FewAtoms, j \in FewAtoms}
    \union {IfExp(k, j, h) : h \in Inner, k \in FewAtoms, j \in FewAtoms}
    \union {Call(Name(f), <<h>>, <<>>) : f \in {"len", "abs", "zz"}, h \in Inner}
    \union {Call(Name("coalesce_val"), <<k, h>>, <<>>) : h \in Inner, k \in FewAtoms}

ExprTexts == {Text(t) : t \in Atoms \union Depth1 \union Depth2} \union {EmptyText, InvalidText}

XValues ==
    {PyNone, PyBool(FALSE), PyInt(0), PyInt(2), PyInt(-1), PyStr(<<>>), PyStr(<<"a", "b">>)}
YValues == {PyNone, PyInt(2), PyStr(<<"a">>)}

\* {**_ALLOWED_FUNCS, **bindings}: the later mapping wins
Merge(base, over) ==
    [k \in DOMAIN base \union DOMAIN over |-> IF k \in DOMAIN over THEN over[k] ELSE base[k]]

\* the environments of a row with columns x and y, and of rows that also have
\* a column named len
Envs ==
    {Merge(_ALLOWED_FUNCS, [x |-> vx, y |-> vy]) : vx \in XValues, vy \in YValues}
    \union {Merge(_ALLOWED_FUNCS, [x |-> PyInt(2), y |-> PyNone, len |-> v]) :
                v \in {PyInt(3), PyStr(<<"a">>)}}

Pending == [exc |-> "pending", msg |-> "", v |-> PyNone]

Idle ==
    /\ input_payload = "idle" /\ dsl = "idle" /\ null_mask_ok = TRUE /\ pc = "idle"
    /\ df = "idle" /\ step_no = 0 /\ applied = <<>> /\ scan = "idle"
    /\ desc_nulls_last = TRUE /\ op_step = [op |-> "none"]
    /\ repeated = FALSE /\ twin = "idle"
    /\ result = "idle" /\ raised = "idle"

InitExpr ==
    /\ Idle
    /\ funcs = _ALLOWED_FUNCS
    /\ threads = <<>>
    /\ expr \in ExprTexts
    /\ env \in Envs
    /\ value = Pending

Evaluate ==
    /\ pc = "idle"
    /\ value = Pending
    /\ value' = _eval_expr(expr, env)
    /\ UNCHANGED <<input_payload, dsl, null_mask_ok, desc_nulls_last, pc, df, step_no,
                   applied, op_step, repeated, twin, funcs, threads, scan, result, raised,
                   expr, env>>

NextExpr == Evaluate

SpecExpr == InitExpr /\ [][NextExpr]_vars

-----------------------------------------------------------------------------
(* DataFrames: [columns |-> <<name, ...>>, data |-> [name |-> <<cell, ...>>]] *)

Range(seq) == {seq[i] : i \in 1..Len(seq)}

NoDuplicates(seq) == \A i, j \in 1..Len(seq) : seq[i] = seq[j] => i = j

Frame(columns, data) == [columns |-> columns, data |-> data]

\* df.height
Height(d) == IF Len(d.columns) = 0 THEN 0 ELSE Len(d.data[d.columns[1]])

\* df.to_dicts(): one dict per row
to_dicts(d) == [i \in 1..Height(d) |-> [c \in Range(d.columns) |-> d.data[c][i]]]

OkDf(d) == [exc |-> NoExc, msg |-> "", df |-> d]

\* the constructors of the dataframe library are strict: the non-null values
\* of one Series have one type
SeriesOk(values) ==
    \A i, j \in 1..Len(values) :
        values[i].t = "NoneType" \/ values[j].t = "NoneType" \/ values[i].t = values[j].t

SeriesErr == Raise("TypeError", "unexpected value while building Series")

\* faulty variant of with_columns: the Series is always appended as a new column
with_columnsAppend(d, name, values) ==
    IF ~SeriesOk(values) THEN SeriesErr
    ELSE OkDf(Frame(Append(d.columns, name),
                    [c \in Range(d.columns) \union {name} |->
                        IF c = name THEN values ELSE d.data[c]]))

\* df.with_columns(pl.Series(name, values)): replaces the column of that name
\* in place, or appends a new last column
with_columns(d, name, values) ==
    IF ~SeriesOk(values) THEN SeriesErr
    ELSE OkDf(Frame(IF name \in Range(d.columns) THEN d.columns ELSE Append(d.columns, name),
                    [c \in Range(d.columns) \union {name} |->
                        IF c = name THEN values ELSE d.data[c]]))

\* the subsequence of seq at the positions where mask holds
RECURSIVE Keep(_, _)
Keep(seq, mask) ==
    IF Len(seq) = 0 THEN <<>>
    ELSE (IF mask[1] THEN <<seq[1]>> ELSE <<>>) \o Keep(Tail(seq), Tail(mask))

\* df.filter(pl.Series("mask", mask)). A mask built from no value has no
\* Boolean type; lib_ok tells whether this build of the library filters by it.
filter(d, mask, lib_ok) ==
    IF Len(mask) = 0 /\ ~lib_ok
    THEN Raise("ComputeError", "filter predicate must be of type Boolean")
    ELSE OkDf(Frame(d.columns, [c \in Range(d.columns) |-> Keep(d.data[c], mask)]))

\* df.select(columns)
select(d, columns) ==
    IF ~(Range(columns) \subseteq Range(d.columns)) THEN Raise("ColumnNotFoundError", "not found")
    ELSE IF ~NoDuplicates(columns) THEN Raise("DuplicateError", "duplicate column")
    ELSE OkDf(Frame(columns, [c \in Range(columns) |-> d.data[c]]))

ColumnNotFound == Raise("ColumnNotFoundError", "not found")
DuplicateError == Raise("DuplicateError", "duplicate column")

Positions(d) == [i \in 1..Height(d) |-> i]

\* the rows of d at the 1-based positions idx, in that order
take(d, idx) ==
    Frame(d.columns, [c \in Range(d.columns) |-> [i \in 1..Len(idx) |-> d.data[c][idx[i]]]])

\* does cell a sort strictly before cell b in one key column
CellBefore(a, b, desc, nulls_last) ==
    IF a = PyNone \/ b = PyNone
    THEN IF nulls_last THEN a # PyNone /\ b = PyNone ELSE a = PyNone /\ b # PyNone
    ELSE IF desc THEN PyLess(b, a) ELSE PyLess(a, b)

\* does row i sort strictly before row j: the key columns compared in turn.
\* Nulls come first, except that some builds put them last in a descending key.
RECURSIVE RowBefore(_, _, _, _, _, _)
RowBefore(d, i, j, by, desc, lib_nulls_last) ==
    IF Len(by) = 0 THEN FALSE
    ELSE LET a == d.data[by[1]][i]
             b == d.data[by[1]][j]
             nl == desc[1] /\ lib_nulls_last
         IN  IF CellBefore(a, b, desc[1], nl) THEN TRUE
             ELSE IF CellBefore(b, a, desc[1], nl) THEN FALSE
             ELSE RowBefore(d, i, j, Tail(by), Tail(desc), lib_nulls_last)

\* faulty variant of SortedOrder: rows with equal keys come out in the reverse
\* of their input order
RECURSIVE SortedOrderTiesReversed(_, _, _, _, _)
SortedOrderTiesReversed(d, rest, by, desc, lib_nulls_last) ==
    IF rest = {} THEN <<>>
    ELSE LET m == CHOOSE i \in rest : \A j \in rest \ {i} :
                        \/ RowBefore(d, i, j, by, desc, lib_nulls_last)
                        \/ ~RowBefore(d, j, i, by, desc, lib_nulls_last) /\ i > j
         IN  <<m>> \o SortedOrderTiesReversed(d, rest \ {m}, by, desc, lib_nulls_last)

\* the positions `rest` in sorted order. maintain_order is not passed; on the
\* frames of this size the library's sort leaves rows with equal keys in
\* their original relative order.
RECURSIVE SortedOrder(_, _, _, _, _)
SortedOrder(d, rest, by, desc, lib_nulls_last) ==
    IF rest = {} THEN <<>>
    ELSE LET m == CHOOSE i \in rest : \A j \in rest \ {i} :
                        \/ RowBefore(d, i, j, by, desc, lib_nulls_last)
                        \/ ~RowBefore(d, j, i, by, desc, lib_nulls_last) /\ i < j
         IN  <<m>> \o SortedOrder(d, rest \ {m}, by, desc, lib_nulls_last)

\* df.sort(by=by, descending=descending); descending is [kind |-> "bool", b]
\* or [kind |-> "list", items]
sort(d, by, descending, lib_nulls_last) ==
    IF ~(Range(by) \subseteq Range(d.columns)) THEN ColumnNotFound
    ELSE IF descending.kind = "list" /\ Len(descending.items) # Len(by)
         THEN Raise("ValueError", "the length of descending does not match the length of by")
    ELSE LET desc == IF descending.kind = "list" THEN descending.items
                     ELSE [i \in 1..Len(by) |-> descending.b]
         IN  OkDf(take(d, SortedOrder(d, 1..Height(d), by, desc, lib_nulls_last)))

RowKey(d, i, subset) == [c \in Range(subset) |-> d.data[c][i]]

\* df.unique(subset=subset, maintain_order=True): the first row of every key
\* is kept, in the order of the input
unique(d, subset) ==
    IF ~(Range(subset) \subseteq Range(d.columns)) THEN ColumnNotFound
    ELSE OkDf(take(d, SelectSeq(Positions(d),
                LAMBDA i : \A j \in 1..(i - 1) : RowKey(d, j, subset) # RowKey(d, i, subset))))

\* df.drop_nulls(subset=subset)
drop_nulls(d, subset) ==
    IF ~(Range(subset) \subseteq Range(d.columns)) THEN ColumnNotFound
    ELSE OkDf(take(d, SelectSeq(Positions(d),
                LAMBDA i : \A c \in Range(subset) : d.data[c][i] # PyNone)))

\* the new name of column c under mapping, a sequence of <<old, new>>
NewName(mapping, c) ==
    IF \E i \in 1..Len(mapping) : mapping[i][1] = c
    THEN mapping[CHOOSE i \in 1..Len(mapping) : mapping[i][1] = c][2]
    ELSE c

\* df.rename(mapping)
rename(d, mapping) ==
    IF \E i \in 1..Len(mapping) : mapping[i][1] \notin Range(d.columns) THEN ColumnNotFound
    ELSE LET cols == [i \in 1..Len(d.columns) |-> NewName(mapping, d.columns[i])]
         IN  IF ~NoDuplicates(cols) THEN DuplicateError
             ELSE OkDf(Frame(cols, [c \in Range(cols) |->
                        d.data[d.columns[CHOOSE i \in 1..Len(cols) : cols[i] = c]]]))

Clamp(x, lo, hi) == IF x < lo THEN lo ELSE IF x > hi THEN hi ELSE x

\* df.slice(offset, length), length an int or None: a negative offset counts
\* from the end of the frame
slice(d, offset, length) ==
    LET h == Height(d)
        start == IF offset < 0 THEN offset + h ELSE offset
        stop == IF length = PyNone THEN h ELSE start + length.n
        a == Clamp(start, 0, h)
        b == Clamp(stop, 0, h)
    IN  OkDf(take(d, [i \in 1..(b - a) |-> a + i]))

\* first rows of the distinct key tuples, in order of first appearance
FirstOfGroups(d, keys) ==
    SelectSeq(Positions(d),
              LAMBDA i : \A j \in 1..(i - 1) : RowKey(d, j, keys) # RowKey(d, i, keys))

\* the rows that have the key tuple of row i
GroupRows(d, keys, i) ==
    SelectSeq(Positions(d), LAMBDA j : RowKey(d, j, keys) = RowKey(d, i, keys))

RECURSIVE PermsOf(_)
PermsOf(S) ==
    IF S = {} THEN {<<>>}
    ELSE UNION {{<<x>> \o q : q \in PermsOf(S \ {x})} : x \in S}

NonNull(cells) == SelectSeq(cells, LAMBDA v : v # PyNone)

\* the aggregations count, first, last, min, max and n_unique over the cells
\* of one group
Aggregate(func, cells) ==
    CASE func = "count" -> PyInt(Len(cells))
      [] func = "first" -> IF Len(cells) = 0 THEN PyNone ELSE cells[1]
      [] func = "last" -> IF Len(cells) = 0 THEN PyNone ELSE cells[Len(cells)]
      [] func = "min" ->
            IF Len(NonNull(cells)) = 0 THEN PyNone
            ELSE CHOOSE v \in Range(NonNull(cells)) :
                    \A w \in Range(NonNull(cells)) : ~PyLess(w, v)
      [] func = "max" ->
            IF Len(NonNull(cells)) = 0 THEN PyNone
            ELSE CHOOSE v \in Range(NonNull(cells)) :
                    \A w \in Range(NonNull(cells)) : ~PyLess(v, w)
      [] func = "n_unique" -> PyInt(Cardinality(Range(cells)))

\* the cells of the rows `rows` an aggregation [func, column, alias] reads
AggCells(d, e, rows) ==
    [i \in 1..Len(rows) |-> IF e.func = "count" THEN PyNone ELSE d.data[e.column][rows[i]]]

AggMissing(d, keys, exprs) ==
    \/ ~(Range(keys) \subseteq Range(d.columns))
    \/ \E i \in 1..Len(exprs) : exprs[i].func # "count" /\ exprs[i].column \notin Range(d.columns)

AggNames(keys, exprs) == keys \o [i \in 1..Len(exprs) |-> exprs[i].alias]

\* the frame of the groups whose first rows are `order`: the key columns, then
\* one column per aggregation
GroupFrame(d, keys, exprs, order) ==
    Frame(AggNames(keys, exprs),
          [c \in Range(AggNames(keys, exprs)) |->
            IF c \in Range(keys) THEN [g \in 1..Len(order) |-> d.data[c][order[g]]]
            ELSE LET e == exprs[CHOOSE i \in 1..Len(exprs) : exprs[i].alias = c]
                 IN  [g \in 1..Len(order) |->
                        Aggregate(e.func, AggCells(d, e, GroupRows(d, keys, order[g])))]])

\* df.group_by(keys).agg(exprs): every result the call can return.
\* maintain_order is not passed, so the groups come in no particular order.
group_by_agg(d, keys, exprs) ==
    IF AggMissing(d, keys, exprs) THEN {ColumnNotFound}
    ELSE IF ~NoDuplicates(AggNames(keys, exprs)) THEN {DuplicateError}
    ELSE {OkDf(GroupFrame(d, keys, exprs, order)) :
                order \in PermsOf(Range(FirstOfGroups(d, keys)))}

\* df.select(exprs) of aggregations: one row over all rows
select_agg(d, exprs) ==
    IF AggMissing(d, <<>>, exprs) THEN ColumnNotFound
    ELSE IF ~NoDuplicates(AggNames(<<>>, exprs)) THEN DuplicateError
    ELSE OkDf(Frame(AggNames(<<>>, exprs),
                    [c \in Range(AggNames(<<>>, exprs)) |->
                        LET e == exprs[CHOOSE i \in 1..Len(exprs) : exprs[i].alias = c]
                        IN  <<Aggregate(e.func, AggCells(d, e, Positions(d)))>>]))

-----------------------------------------------------------------------------
(* Input decoder. The payload is [media_type, data]; data is                *)
(* [kind |-> "str", chars |-> <<char, ...>>] or, for a list of dicts that   *)
(* all have the keys `keys`, [kind |-> "list", keys, rows |-> <<row, ...>>].*)

\* str.splitlines() for texts whose only line boundary is "\n"
RECURSIVE SplitAt(_, _)
SplitAt(chars, cur) ==
    IF Len(chars) = 0 THEN (IF Len(cur) = 0 THEN <<>> ELSE <<cur>>)
    ELSE IF Head(chars) = "\n" THEN <<cur>> \o SplitAt(Tail(chars), <<>>)
    ELSE SplitAt(Tail(chars), Append(cur, Head(chars)))

splitlines(chars) == SplitAt(chars, <<>>)

IsDigits(chars) == Len(chars) > 0 /\ \A i \in 1..Len(chars) : IsDigit(chars[i])

RECURSIVE DigitsValue(_, _)
DigitsValue(chars, acc) ==
    IF Len(chars) = 0 THEN acc
    ELSE DigitsValue(Tail(chars), 10 * acc + DigitValue(Head(chars)))

\* the pieces of chars between the occurrences of the character sep[1]
RECURSIVE SplitOn(_, _, _)
SplitOn(chars, sep, cur) ==
    IF Len(chars) = 0 THEN <<cur>>
    ELSE IF Head(chars) = sep[1] THEN <<cur>> \o SplitOn(Tail(chars), sep, <<>>)
    ELSE SplitOn(Tail(chars), sep, Append(cur, Head(chars)))

\* json.loads(data), for texts made of integers without sign, strings
\* without escapes, lists and objects, separated by blanks, tabs and line
\* ends. A value is [j |-> "num", n], [j |-> "str", s], [j |-> "list", items]
\* or [j |-> "dict", keys, vals]; a parse gives the value and the position
\* after it.
JFail == [ok |-> FALSE]
JOk(v, p) == [ok |-> TRUE, val |-> v, pos |-> p]

RECURSIVE SkipWs(_, _)
SkipWs(c, p) == IF p <= Len(c) /\ c[p] \in {" ", "\n", "\t"} THEN SkipWs(c, p + 1) ELSE p

\* the position after the run of digits that starts at p
RECURSIVE DigitRunEnd(_, _)
DigitRunEnd(c, p) == IF p <= Len(c) /\ IsDigit(c[p]) THEN DigitRunEnd(c, p + 1) ELSE p

\* the position of the quote that closes the string opened before p, or 0
RECURSIVE ClosingQuote(_, _)
ClosingQuote(c, p) ==
    IF p > Len(c) \/ c[p] \in {"\n", "\t", "\\"} THEN 0
    ELSE IF c[p] = "\"" THEN p
    ELSE ClosingQuote(c, p + 1)

\* d[key] = value on the dict with the given keys and values
DictSet(keys, vals, key, v) ==
    IF key \in Range(keys)
    THEN [j |-> "dict", keys |-> keys,
          vals |-> [i \in 1..Len(keys) |-> IF keys[i] = key THEN v ELSE vals[i]]]
    ELSE [j |-> "dict", keys |-> Append(keys, key), vals |-> Append(vals, v)]

RECURSIVE ParseValue(_, _), ParseItems(_, _, _), ParseMembers(_, _, _)
ParseValue(c, p0) ==
    LET p == SkipWs(c, p0)
    IN  IF p > Len(c) THEN JFail
        ELSE IF c[p] = "["
             THEN IF SkipWs(c, p + 1) <= Len(c) /\ c[SkipWs(c, p + 1)] = "]"
                  THEN JOk([j |-> "list", items |-> <<>>], SkipWs(c, p + 1) + 1)
                  ELSE ParseItems(c, p + 1, <<>>)
        ELSE IF c[p] = "{"
             THEN IF SkipWs(c, p + 1) <= Len(c) /\ c[SkipWs(c, p + 1)] = "}"
                  THEN JOk([j |-> "dict", keys |-> <<>>, vals |-> <<>>], SkipWs(c, p + 1) + 1)
                  ELSE ParseMembers(c, p + 1, [j |-> "dict", keys |-> <<>>, vals |-> <<>>])
        ELSE IF c[p] = "\""
             THEN IF ClosingQuote(c, p + 1) = 0 THEN JFail
                  ELSE JOk([j |-> "str", s |-> SubSeq(c, p + 1, ClosingQuote(c, p + 1) - 1)],
                           ClosingQuote(c, p + 1) + 1)
        ELSE IF IsDigit(c[p])
             THEN LET e == IF c[p] = "0" THEN p + 1 ELSE DigitRunEnd(c, p)
                  IN  JOk([j |-> "num", n |-> DigitsValue(SubSeq(c, p, e - 1), 0)], e)
        ELSE JFail

\* the elements of a list after "[" or ",", up to the closing "]"
ParseItems(c, p, acc) ==
    LET v == ParseValue(c, p)
        q == SkipWs(c, v.pos)
    IN  IF ~v.ok \/ q > Len(c) THEN JFail
        ELSE IF c[q] = "," THEN ParseItems(c, q + 1, Append(acc, v.val))
        ELSE IF c[q] = "]" THEN JOk([j |-> "list", items |-> Append(acc, v.val)], q + 1)
        ELSE JFail

\* the members of an object after "{" or ",", up to the closing "}"
ParseMembers(c, p, dict) ==
    LET k == SkipWs(c, p)
        key == ParseValue(c, k)
        colon == SkipWs(c, key.pos)
        v == ParseValue(c, colon + 1)
        q == SkipWs(c, v.pos)
    IN  IF k > Len(c) \/ c[k] # "\"" \/ ~key.ok THEN JFail
        ELSE IF colon > Len(c) \/ c[colon] # ":" THEN JFail
        ELSE IF ~v.ok \/ q > Len(c) THEN JFail
        ELSE IF c[q] = ","
             THEN ParseMembers(c, q + 1, DictSet(dict.keys, dict.vals, key.val.s, v.val))
        ELSE IF c[q] = "}" THEN JOk(DictSet(dict.keys, dict.vals, key.val.s, v.val), q + 1)
        ELSE JFail

json_loads(c) ==
    LET v == ParseValue(c, 1)
    IN  IF v.ok /\ SkipWs(c, v.pos) = Len(c) + 1 THEN v ELSE JFail

\* the name of a column as the frames of this model carry it: the text
\* itself, for the texts that name columns in the decoded inputs
KnownNames ==
    (<<"[", "1">> :> "[1") @@ (<<"2", "]">> :> "2]") @@ (<<"a", ";", "b">> :> "a;b")
        @@ (<<"a", "|", "b">> :> "a|b") @@ (<<"a", "\t", "b">> :> "a\tb")
        @@ (<<"[", "{", "}">> :> "[{}") @@ (<<"1", "]">> :> "1]")

IsName(chars) == Len(chars) = 1 \/ chars \in DOMAIN KnownNames
NameOf(chars) == IF Len(chars) = 1 THEN chars[1] ELSE KnownNames[chars]

\* the cell of a parsed number or string
JCell(v) == IF v.j = "num" THEN PyInt(v.n) ELSE PyStr(v.s)

\* pl.DataFrame(parsed, strict=False) of a parsed list: the rows are dicts
\* of numbers and strings under the same keys; anything else in the list is
\* refused
from_dicts(items) ==
    IF Len(items) = 0 THEN OkDf(Frame(<<>>, <<>>))
    ELSE IF \E i \in 1..Len(items) : items[i].j # "dict" \/ items[i].keys # items[1].keys
         THEN Raise("TypeError", "cannot convert to dict")
    ELSE LET keys == items[1].keys
         IN  OkDf(Frame([k \in 1..Len(keys) |-> NameOf(keys[k])],
                        [n \in {NameOf(keys[k]) : k \in 1..Len(keys)} |->
                            [i \in 1..Len(items) |->
                                JCell(items[i].vals[CHOOSE k \in 1..Len(keys) :
                                                        NameOf(keys[k]) = n])]]))

\* the lines of a text, a final line end closing the last line
Lines(c) == SplitAt(c, <<>>)

\* pl.read_csv(io.StringIO(data)): the first line names the columns, the
\* fields are separated by ",", a short line is filled with nulls and a
\* line with more fields than the header is refused; a column whose fields
\* are all digits holds integers, any other column strings, and an empty
\* field is null
read_csv(c) ==
    LET header == SplitOn(Lines(c)[1], <<",">>, <<>>)
        rows == [i \in 1..(Len(Lines(c)) - 1) |-> SplitOn(Lines(c)[i + 1], <<",">>, <<>>)]
        field(i, k) == IF k <= Len(rows[i]) THEN rows[i][k] ELSE <<>>
        ints(k) == \A i \in 1..Len(rows) : field(i, k) = <<>> \/ IsDigits(field(i, k))
    IN  IF Len(Lines(c)) = 0 THEN Raise("NoDataError", "empty CSV")
        ELSE IF \E i \in 1..Len(rows) : Len(rows[i]) > Len(header)
             THEN Raise("ComputeError", "found more fields than defined in the schema")
        ELSE OkDf(Frame([k \in 1..Len(header) |-> NameOf(header[k])],
                        [n \in {NameOf(header[k]) : k \in 1..Len(header)} |->
                            LET k == CHOOSE k \in 1..Len(header) : NameOf(header[k]) = n
                            IN  [i \in 1..Len(rows) |->
                                    IF field(i, k) = <<>> THEN PyNone
                                    ELSE IF ints(k) THEN PyInt(DigitsValue(field(i, k), 0))
                                    ELSE PyStr(field(i, k))]]))

\* any(sep in data for sep in [",", "\t", ";", "|"])
LooksLikeCsv(c) == \E i \in 1..Len(c) : c[i] \in {",", "\t", ";", "|"}

\* the frame of the lines of a text
TextFrame(c) ==
    OkDf(Frame(<<"line">>, [n \in {"line"} |->
                    [i \in 1..Len(splitlines(c)) |-> PyStr(splitlines(c)[i])]]))

\* faulty variant of AutoDetect: a text that parses as JSON is never handed
\* to the CSV reader
AutoDetectJsonOrText(c) ==
    LET parsed == json_loads(c)
    IN  IF /\ parsed.ok /\ parsed.val.j = "list"
           /\ (Len(parsed.val.items) = 0 \/ parsed.val.items[1].j = "dict")
           /\ ~IsExc(from_dicts(parsed.val.items))
        THEN from_dicts(parsed.val.items)
        ELSE IF ~parsed.ok /\ LooksLikeCsv(c) /\ ~IsExc(read_csv(c)) THEN read_csv(c)
        ELSE TextFrame(c)

\* media_type is None and data is a str: the JSON parse, whose failures are
\* swallowed, then the CSV reader if a separator occurs, whose failures are
\* swallowed too, then the lines
AutoDetect(c) ==
    LET parsed == json_loads(c)
    IN  IF /\ parsed.ok /\ parsed.val.j = "list"
           /\ (Len(parsed.val.items) = 0 \/ parsed.val.items[1].j = "dict")
           /\ ~IsExc(from_dicts(parsed.val.items))
        THEN from_dicts(parsed.val.items)
        ELSE IF LooksLikeCsv(c) /\ ~IsExc(read_csv(c)) THEN read_csv(c)
        ELSE TextFrame(c)

\* the branches for an absent media_type, for "text" and "json", and the
\* final raise
_ensure_dataframe(payload) ==
    CASE "media_type" \notin DOMAIN payload ->
            IF payload.data.kind # "str"
            THEN Raise(DSLExecutionError, "text input requires 'data' as string")
            ELSE AutoDetect(payload.data.chars)
      [] payload.media_type = "text" ->
            IF payload.data.kind # "str"
            THEN Raise(DSLExecutionError, "text input requires 'data' as string")
            ELSE TextFrame(payload.data.chars)
      [] payload.media_type = "json" ->
            IF payload.data.kind = "list"
            THEN OkDf(Frame(IF Len(payload.data.rows) = 0 THEN <<>> ELSE payload.data.keys,
                            [c \in (IF Len(payload.data.rows) = 0 THEN {}
                                    ELSE Range(payload.data.keys)) |->
                                [i \in 1..Len(payload.data.rows) |-> payload.data.rows[i][c]]]))
            ELSE Raise(DSLExecutionError, "json input requires 'data' as list[object]")
      [] OTHER -> Raise(DSLExecutionError, "Unsupported media_type")

-----------------------------------------------------------------------------
(* Operations *)

\* raises the uniform failure naming the operation, the missing and the
\* available columns
_require_columns(d, columns, op_name) ==
    LET missing == SelectSeq(columns, LAMBDA c : c \notin Range(d.columns))
    IN  IF Len(missing) > 0
        THEN [exc |-> DSLExecutionError, msg |-> "missing columns", op |-> op_name,
              missing |-> missing, available |-> d.columns]
        ELSE [exc |-> NoExc, msg |-> ""]

KeyError(key) == [exc |-> "KeyError", msg |-> key]

\* step.get(key, default)
Get(step, key, default) == IF key \in DOMAIN step THEN step[key] ELSE default

_apply_select(d, step) ==
    IF "columns" \notin DOMAIN step THEN KeyError("columns")
    ELSE IF IsExc(_require_columns(d, step.columns, "select"))
         THEN _require_columns(d, step.columns, "select")
         ELSE select(d, step.columns)

\* faulty variant of RowEnv: the built-ins are bound last and hide the columns
RowEnvBuiltinsLast(row, idx) ==
    Merge(Merge(row, [row_index |-> PyInt(idx)]), _ALLOWED_FUNCS)

\* {**_ALLOWED_FUNCS, **row, "row_index": idx}, idx 0-based
RowEnv(row, idx) == Merge(Merge(_ALLOWED_FUNCS, row), [row_index |-> PyInt(idx)])

\* the loop over enumerate(rows): the values of expr for the rows from i on,
\* or the first exception
RECURSIVE EvalRows(_, _, _)
EvalRows(text, rows, i) ==
    IF i > Len(rows) THEN [exc |-> NoExc, msg |-> "", values |-> <<>>]
    ELSE LET x == _eval_expr(text, RowEnv(rows[i], i - 1))
         IN  IF IsExc(x) THEN [exc |-> x.exc, msg |-> x.msg]
             ELSE LET rest == EvalRows(text, rows, i + 1)
                  IN  IF IsExc(rest) THEN rest
                      ELSE [exc |-> NoExc, msg |-> "", values |-> <<x.v>> \o rest.values]

_apply_filter_expr(d, step, lib_ok) ==
    IF "expr" \notin DOMAIN step THEN KeyError("expr")
    ELSE LET r == EvalRows(step.expr, to_dicts(d), 1)
         IN  IF IsExc(r) THEN r
             ELSE filter(d, [i \in 1..Len(r.values) |-> Truthy(r.values[i])], lib_ok)

_apply_compute_expr(d, step) ==
    IF "expr" \notin DOMAIN step THEN KeyError("expr")
    ELSE IF "as" \notin DOMAIN step THEN KeyError("as")
    ELSE LET r == EvalRows(step.expr, to_dicts(d), 1)
         IN  IF IsExc(r) THEN r ELSE with_columns(d, step.as, r.values)

-----------------------------------------------------------------------------
(* Casts of cell values: int(value), float(value), str(value) *)

\* texts of an integer literal: an optional "-" and digits
IsIntText(chars) ==
    IF Len(chars) > 0 /\ Head(chars) = "-" THEN IsDigits(Tail(chars)) ELSE IsDigits(chars)

IntTextValue(chars) ==
    IF Head(chars) = "-" THEN -DigitsValue(Tail(chars), 0) ELSE DigitsValue(chars, 0)

RECURSIVE IntDigits(_)
IntDigits(i) == IF i < 10 THEN <<Digits[i + 1]>> ELSE Append(IntDigits(i \div 10), Digits[(i % 10) + 1])

IntText(i) == IF i < 0 THEN <<"-">> \o IntDigits(-i) ELSE IntDigits(i)

\* decimal digits of the fraction num / den < 1, which has a finite expansion
RECURSIVE FracDigits(_, _)
FracDigits(num, den) ==
    IF num = 0 THEN <<>>
    ELSE <<Digits[((10 * num) \div den) + 1]>> \o FracDigits((10 * num) % den, den)

Trunc(v) == IF v.n >= 0 THEN v.n \div v.d ELSE -((-v.n) \div v.d)

\* int(v)
PyIntCast(v) ==
    CASE IsIntegral(v) -> Ok(PyInt(v.n))
      [] v.t = "float" -> Ok(PyInt(Trunc(v)))
      [] v.t = "str" ->
            IF IsIntText(v.s) THEN Ok(PyInt(IntTextValue(v.s)))
            ELSE Raise("ValueError", "invalid literal for int()")
      [] OTHER -> Raise("TypeError", "int() argument must be a string or a number")

\* float(v); the texts of the model that denote a number are integer literals
PyFloatCast(v) ==
    CASE IsNumber(v) -> Ok(PyFloat(v.n, v.d))
      [] v.t = "str" ->
            IF IsIntText(v.s) THEN Ok(PyFloat(IntTextValue(v.s), 1))
            ELSE Raise("ValueError", "could not convert string to float")
      [] OTHER -> Raise("TypeError", "float() argument must be a string or a number")

\* str(v) of None, bool, int, float and str
PyStrCast(v) ==
    CASE v.t = "NoneType" -> Ok(PyStr(<<"N", "o", "n", "e">>))
      [] v.t = "bool" ->
            Ok(PyStr(IF v.n = 1 THEN <<"T", "r", "u", "e">> ELSE <<"F", "a", "l", "s", "e">>))
      [] v.t = "int" -> Ok(PyStr(IntText(v.n)))
      [] v.t = "float" ->
            LET whole == Trunc(v)
                frac == FracDigits(Abs(v.n) - Abs(whole) * v.d, v.d)
            IN  Ok(PyStr((IF v.n < 0 /\ whole = 0 THEN <<"-">> ELSE <<>>) \o IntText(whole)
                         \o <<".">> \o (IF Len(frac) = 0 THEN <<"0">> ELSE frac)))
      [] v.t = "str" -> Ok(v)

-----------------------------------------------------------------------------
(* Column-shaping, row-shaping and aggregation operations *)

\* keys of a mapping given as a sequence of <<key, value>>
Keys(mapping) == [i \in 1..Len(mapping) |-> mapping[i][1]]

_apply_rename(d, step) ==
    IF "mapping" \notin DOMAIN step THEN KeyError("mapping")
    ELSE IF IsExc(_require_columns(d, Keys(step.mapping), "rename"))
         THEN _require_columns(d, Keys(step.mapping), "rename")
         ELSE rename(d, step.mapping)

\* pl.col(c).cast(dtype, strict=False) of one cell: what cannot be converted
\* becomes null
CastValue(dtype, v) ==
    IF v = PyNone THEN PyNone
    ELSE CASE dtype = "int" -> IF IsExc(PyIntCast(v)) THEN PyNone ELSE PyIntCast(v).v
           [] dtype = "float" -> IF IsExc(PyFloatCast(v)) THEN PyNone ELSE PyFloatCast(v).v
           [] dtype = "str" -> PyStrCast(v).v
           [] dtype = "bool" -> IF IsNumber(v) THEN PyBool(v.n # 0) ELSE PyNone

CastDtypes == {"int", "float", "str", "bool"}

\* df.with_columns(casts): every cast column replaced in place
cast_columns(d, mapping) ==
    OkDf(Frame(d.columns,
               [c \in Range(d.columns) |->
                    IF \E i \in 1..Len(mapping) : mapping[i][1] = c
                    THEN [r \in 1..Height(d) |-> CastValue(NewName(mapping, c), d.data[c][r])]
                    ELSE d.data[c]]))

_apply_cast(d, step) ==
    IF "mapping" \notin DOMAIN step THEN KeyError("mapping")
    ELSE IF IsExc(_require_columns(d, Keys(step.mapping), "cast"))
         THEN _require_columns(d, Keys(step.mapping), "cast")
    ELSE IF \E i \in 1..Len(step.mapping) : step.mapping[i][2] \notin CastDtypes
         THEN Raise(DSLExecutionError, "Unsupported cast dtype")
    ELSE IF Len(step.mapping) > 0 THEN cast_columns(d, step.mapping)
    ELSE OkDf(d)

\* int(step.get("offset", 0)), step.get("length")
_apply_slice(d, step) ==
    LET offset == PyIntCast(Get(step, "offset", PyInt(0)))
    IN  IF IsExc(offset) THEN [exc |-> offset.exc, msg |-> offset.msg]
        ELSE slice(d, offset.v.n, Get(step, "length", PyNone))

\* the aggregation expressions built by the loop over step["aggregations"]
\* from entry i on, or the first exception
AggFuncs == {"sum", "mean", "min", "max", "first", "last", "n_unique", "concat_str"}

RECURSIVE AggExprs(_, _)
AggExprs(aggs, i) ==
    IF i > Len(aggs) THEN [exc |-> NoExc, msg |-> "", exprs |-> <<>>]
    ELSE IF "func" \notin DOMAIN aggs[i] THEN KeyError("func")
    ELSE IF aggs[i].func # "count" /\ "column" \notin DOMAIN aggs[i]
         THEN Raise(DSLExecutionError, "group_by_agg: 'column' required for non-count")
    ELSE IF aggs[i].func # "count" /\ aggs[i].func \notin AggFuncs
         THEN Raise(DSLExecutionError, "group_by_agg: unsupported func")
    ELSE LET e == IF aggs[i].func = "count"
                  THEN [func |-> "count", column |-> "", alias |-> Get(aggs[i], "as", "count")]
                  ELSE [func |-> aggs[i].func, column |-> aggs[i].column,
                        alias |-> Get(aggs[i], "as", aggs[i].column \o "_" \o aggs[i].func)]
             rest == AggExprs(aggs, i + 1)
         IN  IF IsExc(rest) THEN rest
             ELSE [exc |-> NoExc, msg |-> "", exprs |-> <<e>> \o rest.exprs]

\* every outcome of the step: a set, as the order of the groups is not fixed
_apply_group_by_agg(d, step) ==
    LET keys == Get(step, "keys", <<>>)
        aggs == Get(step, "aggregations", <<>>)
    IN  IF Len(aggs) = 0 THEN {Raise(DSLExecutionError, "group_by_agg: 'aggregations' is required")}
        ELSE IF IsExc(AggExprs(aggs, 1)) THEN {AggExprs(aggs, 1)}
        ELSE IF Len(keys) > 0 THEN group_by_agg(d, keys, AggExprs(aggs, 1).exprs)
        ELSE {select_agg(d, AggExprs(aggs, 1).exprs)}

\* descending is absent, a bool or a list of bool
_apply_sort_by(d, step, lib_nulls_last) ==
    IF "columns" \notin DOMAIN step THEN KeyError("columns")
    ELSE sort(d, step.columns, Get(step, "descending", [kind |-> "bool", b |-> FALSE]),
              lib_nulls_last)

_apply_distinct(d, step) ==
    IF Len(Get(step, "columns", <<>>)) > 0 THEN unique(d, step.columns)
    ELSE unique(d, d.columns)

_apply_coalesce(d, step) ==
    IF "columns" \notin DOMAIN step THEN KeyError("columns")
    ELSE IF Len(step.columns) = 0 THEN Raise(DSLExecutionError, "coalesce: 'columns' is required")
    ELSE IF IsExc(_require_columns(d, step.columns, "coalesce"))
         THEN _require_columns(d, step.columns, "coalesce")
    ELSE with_columns(d, Get(step, "as", step.columns[1]),
            [r \in 1..Height(d) |->
                LET nn == NonNull([i \in 1..Len(step.columns) |-> d.data[step.columns[i]][r]])
                IN  IF Len(nn) = 0 THEN PyNone ELSE nn[1]])

_apply_drop_na(d, step) ==
    IF Len(Get(step, "columns", <<>>)) > 0
    THEN IF IsExc(_require_columns(d, step.columns, "drop_na"))
         THEN _require_columns(d, step.columns, "drop_na")
         ELSE drop_nulls(d, step.columns)
    ELSE drop_nulls(d, d.columns)

\* df.sample(n=n, with_replacement=..., shuffle=True, seed=seed): every frame
\* the call can return. Without a seed any selection of n rows in any order
\* can come out; which one a seed fixes depends on the build, so a seeded
\* call is given the same outcomes.
sample(d, n, with_replacement) ==
    IF n < 0 THEN {Raise("OverflowError", "can't convert negative int to unsigned")}
    ELSE IF ~with_replacement /\ n > Height(d)
    THEN {Raise("ShapeError", "cannot take a larger sample than the total population")}
    ELSE {OkDf(take(d, q)) :
            q \in {f \in [1..n -> 1..Height(d)] :
                        with_replacement \/ \A i, j \in 1..n : f[i] = f[j] => i = j}}

\* _apply_sample, for a step that gives n and no frac: whatever the try block
\* raises is re-raised as DSLExecutionError
_apply_sample(d, step) ==
    IF "n" \notin DOMAIN step
    THEN {Raise(DSLExecutionError, "sample: 'n' or 'frac' is required")}
    ELSE IF IsExc(PyIntCast(step.n)) THEN {Raise(DSLExecutionError, "sample: int()")}
    ELSE {IF IsExc(r) THEN Raise(DSLExecutionError, "sample: library error") ELSE r :
            r \in sample(d, PyIntCast(step.n).v.n, Truthy(Get(step, "with_replacement", PyBool(FALSE))))}

-----------------------------------------------------------------------------
(* scan *)

MAX_SCAN_STEPS == 100000

\* df[column][row_idx] if column in df.columns else None (row_idx 0-based)
Cell(d, column, row_idx) ==
    IF column \in Range(d.columns) THEN d.data[column][row_idx + 1] ELSE PyNone

CastCell(cast, v) ==
    CASE cast = "int" -> PyIntCast(v)
      [] cast = "float" -> PyFloatCast(v)
      [] cast = "str" -> PyStrCast(v)
      [] OTHER -> Ok(v)

\* faulty variant of SeedFromRows: a variable that init already set keeps its
\* init value
RECURSIVE SeedFromRowsInitWins(_, _, _, _)
SeedFromRowsInitWins(d, specs, i, state) ==
    IF i > Len(specs) THEN [exc |-> NoExc, msg |-> "", state |-> state]
    ELSE IF "var" \notin DOMAIN specs[i] THEN KeyError("var")
    ELSE IF "row" \notin DOMAIN specs[i] THEN KeyError("row")
    ELSE IF specs[i].row < 0 \/ specs[i].row >= Height(d)
         THEN Raise(DSLExecutionError, "init_from_rows: row index out of range")
    ELSE LET v == CastCell(Get(specs[i], "cast", "none"),
                           Cell(d, Get(specs[i], "column", "line"), specs[i].row))
         IN  IF IsExc(v) THEN [exc |-> v.exc, msg |-> v.msg]
             ELSE SeedFromRowsInitWins(d, specs, i + 1, Merge((specs[i].var :> v.v), state))

\* the loop over step["init_from_rows"] from entry i on: the seeded state in
\* .state, or the first exception
RECURSIVE SeedFromRows(_, _, _, _)
SeedFromRows(d, specs, i, state) ==
    IF i > Len(specs) THEN [exc |-> NoExc, msg |-> "", state |-> state]
    ELSE IF "var" \notin DOMAIN specs[i] THEN KeyError("var")
    ELSE IF "row" \notin DOMAIN specs[i] THEN KeyError("row")
    ELSE IF specs[i].row < 0 \/ specs[i].row >= Height(d)
         THEN Raise(DSLExecutionError, "init_from_rows: row index out of range")
    ELSE LET v == CastCell(Get(specs[i], "cast", "none"),
                           Cell(d, Get(specs[i], "column", "line"), specs[i].row))
         IN  IF IsExc(v) THEN [exc |-> v.exc, msg |-> v.msg]
             ELSE SeedFromRows(d, specs, i + 1, Merge(state, (specs[i].var :> v.v)))

\* the step count before the integer cast: step["steps"], else the cell named
\* by steps_from_row cast to int or float, else None
ScanSteps(d, step) ==
    IF Get(step, "steps", PyNone) # PyNone THEN Ok(step.steps)
    ELSE IF "steps_from_row" \notin DOMAIN step THEN Ok(PyNone)
    ELSE IF "row" \notin DOMAIN step.steps_from_row THEN KeyError("row")
    ELSE IF step.steps_from_row.row < 0 \/ step.steps_from_row.row >= Height(d)
         THEN Raise(DSLExecutionError, "steps_from_row: row index out of range")
    ELSE LET v == Cell(d, Get(step.steps_from_row, "column", "line"), step.steps_from_row.row)
         IN  IF Get(step.steps_from_row, "cast", "int") = "int"
             THEN PyIntCast(v) ELSE PyFloatCast(v)

\* faulty variant of ScanSetup: the upper limit itself is rejected
ScanSetupExclusive(d, step) ==
    LET seeded == IF "init_from_rows" \in DOMAIN step
                  THEN SeedFromRows(d, step.init_from_rows, 1, Get(step, "init", <<>>))
                  ELSE [exc |-> NoExc, msg |-> "", state |-> Get(step, "init", <<>>)]
        steps == ScanSteps(d, step)
    IN  IF IsExc(seeded) THEN seeded
        ELSE IF IsExc(steps) THEN [exc |-> steps.exc, msg |-> steps.msg]
        ELSE IF steps.v = PyNone
             THEN Raise(DSLExecutionError, "scan: 'steps' or 'steps_from_row' is required")
        ELSE IF IsExc(PyIntCast(steps.v))
             THEN Raise(DSLExecutionError, "scan: steps must be integer")
        ELSE IF PyIntCast(steps.v).v.n < 0 \/ PyIntCast(steps.v).v.n >= MAX_SCAN_STEPS
             THEN Raise(DSLExecutionError, "scan: steps out of allowed range (0..100000)")
        ELSE [exc |-> NoExc, msg |-> "", state |-> seeded.state,
              steps_int |-> PyIntCast(steps.v).v.n]

\* lines 899-938: the seeded state and the checked step count
ScanSetup(d, step) ==
    LET seeded == IF "init_from_rows" \in DOMAIN step
                  THEN SeedFromRows(d, step.init_from_rows, 1, Get(step, "init", <<>>))
                  ELSE [exc |-> NoExc, msg |-> "", state |-> Get(step, "init", <<>>)]
        steps == ScanSteps(d, step)
    IN  IF IsExc(seeded) THEN seeded
        ELSE IF IsExc(steps) THEN [exc |-> steps.exc, msg |-> steps.msg]
        ELSE IF steps.v = PyNone
             THEN Raise(DSLExecutionError, "scan: 'steps' or 'steps_from_row' is required")
        ELSE IF IsExc(PyIntCast(steps.v))
             THEN Raise(DSLExecutionError, "scan: steps must be integer")
        ELSE IF PyIntCast(steps.v).v.n < 0 \/ PyIntCast(steps.v).v.n > MAX_SCAN_STEPS
             THEN Raise(DSLExecutionError, "scan: steps out of allowed range (0..100000)")
        ELSE [exc |-> NoExc, msg |-> "", state |-> seeded.state,
              steps_int |-> PyIntCast(steps.v).v.n]

\* {**_ALLOWED_FUNCS, **state}
ScanEnv(state) == Merge(_ALLOWED_FUNCS, state)

\* faulty variant of UpdateAll (naive sequential assignment): each update
\* reads the values assigned earlier in the same iteration
RECURSIVE UpdateSequential(_, _, _, _)
UpdateSequential(update, i, e, next_state) ==
    IF i > Len(update) THEN [exc |-> NoExc, msg |-> "", state |-> next_state]
    ELSE LET x == _eval_expr(update[i][2], Merge(e, next_state))
         IN  IF IsExc(x) THEN [exc |-> x.exc, msg |-> x.msg]
             ELSE UpdateSequential(update, i + 1, e, Merge(next_state, (update[i][1] :> x.v)))

\* for var, uexpr in update.items(): next_state[var] = _eval_expr(uexpr, env),
\* from entry i on; env is the environment built before the loop
RECURSIVE UpdateAll(_, _, _, _)
UpdateAll(update, i, e, next_state) ==
    IF i > Len(update) THEN [exc |-> NoExc, msg |-> "", state |-> next_state]
    ELSE LET x == _eval_expr(update[i][2], e)
         IN  IF IsExc(x) THEN [exc |-> x.exc, msg |-> x.msg]
             ELSE UpdateAll(update, i + 1, e, Merge(next_state, (update[i][1] :> x.v)))

\* faulty variant of ScanIteration: next_state starts empty instead of as a
\* copy of state
ScanIterationFresh(state, step) ==
    LET e == ScanEnv(state)
        next == UpdateAll(Get(step, "update", <<>>), 1, e, <<>>)
        emit_expr == Get(step, "emit", EmptyText)
        val == IF emit_expr.src # "empty" THEN _eval_expr(emit_expr, e) ELSE Ok(PyNone)
    IN  IF IsExc(next) THEN next
        ELSE IF IsExc(val) THEN [exc |-> val.exc, msg |-> val.msg]
        ELSE [exc |-> NoExc, msg |-> "", state |-> next.state, val |-> val.v]

\* one iteration of the loop of lines 943-951: the next state and the value
\* appended to outputs, or the first exception
ScanIteration(state, step) ==
    LET e == ScanEnv(state)
        next == UpdateAll(Get(step, "update", <<>>), 1, e, state)
        emit_expr == Get(step, "emit", EmptyText)
        val == IF emit_expr.src # "empty" THEN _eval_expr(emit_expr, e) ELSE Ok(PyNone)
    IN  IF IsExc(next) THEN next
        ELSE IF IsExc(val) THEN [exc |-> val.exc, msg |-> val.msg]
        ELSE [exc |-> NoExc, msg |-> "", state |-> next.state, val |-> val.v]

\* pl.DataFrame({as_col: outputs})
ScanFrame(step, outputs) ==
    IF ~SeriesOk(outputs) THEN SeriesErr
    ELSE OkDf(Frame(<<Get(step, "as", "value")>>,
                    [c \in {Get(step, "as", "value")} |-> outputs]))

-----------------------------------------------------------------------------
(* execute_dsl *)

NoFailure == [exc |-> NoExc, msg |-> ""]
NoResult == [output |-> <<>>, meta |-> "none"]
NoScan == [state |-> <<>>, steps_int |-> 0, k |-> 0, outputs |-> <<>>]
NoFrame == Frame(<<>>, <<>>)

Steps == dsl.steps
CurStep == Steps[step_no + 1]
InLoop == pc = "loop" /\ step_no < Len(Steps)
AtOp(name) == InLoop /\ "op" \in DOMAIN CurStep /\ CurStep.op = name

\* the branches of the if/elif chain that are modelled
ModelledOps == {"select", "filter_expr", "compute_expr", "scan", "sample"}

\* faulty variant of LoopControl: a failing step is recorded and skipped
LoopControlContinue(r) ==
    IF IsExc(r)
    THEN [pc |-> "loop", raised |-> r, df |-> df, step_no |-> step_no + 1, applied |-> applied]
    ELSE [pc |-> "loop", raised |-> raised, df |-> r.df, step_no |-> step_no + 1,
          applied |-> Append(applied, step_no)]

\* the body of `for step in steps`: df = _apply_x(df, step) either binds the
\* new frame and goes on to the next step, or its exception leaves execute_dsl
LoopControl(r) ==
    IF IsExc(r)
    THEN [pc |-> "raised", raised |-> r, df |-> df, step_no |-> step_no, applied |-> applied]
    ELSE [pc |-> "loop", raised |-> raised, df |-> r.df, step_no |-> step_no + 1,
          applied |-> Append(applied, step_no)]

Commit(r) ==
    LET c == LoopControl(r)
    IN  /\ pc' = c.pc
        /\ raised' = c.raised
        /\ df' = c.df
        /\ step_no' = c.step_no
        /\ applied' = c.applied

NoStep == [op |-> "none"]

\* no second execution
NoTwin == [pc |-> "none"]

Fixed ==
    UNCHANGED <<input_payload, dsl, null_mask_ok, desc_nulls_last, op_step, repeated, twin,
                funcs, threads, expr, env, value>>

\* df = _ensure_dataframe(input_payload)
Decode ==
    /\ pc = "decode"
    /\ LET r == _ensure_dataframe(input_payload)
       IN  IF IsExc(r)
           THEN pc' = "raised" /\ raised' = r /\ UNCHANGED df
           ELSE pc' = "loop" /\ df' = r.df /\ UNCHANGED raised
    /\ UNCHANGED <<step_no, applied, scan, result>>
    /\ Fixed

\* op = step["op"] for a step without the key
MissingOp ==
    /\ InLoop
    /\ "op" \notin DOMAIN CurStep
    /\ Commit(KeyError("op"))
    /\ UNCHANGED <<scan, result>>
    /\ Fixed

Select ==
    /\ AtOp("select")
    /\ Commit(_apply_select(df, CurStep))
    /\ UNCHANGED <<scan, result>>
    /\ Fixed

FilterExpr ==
    /\ AtOp("filter_expr")
    /\ Commit(_apply_filter_expr(df, CurStep, null_mask_ok))
    /\ UNCHANGED <<scan, result>>
    /\ Fixed

ComputeExpr ==
    /\ AtOp("compute_expr")
    /\ Commit(_apply_compute_expr(df, CurStep))
    /\ UNCHANGED <<scan, result>>
    /\ Fixed

\* _apply_scan up to the loop
ScanBegin ==
    /\ AtOp("scan")
    /\ LET r == ScanSetup(df, CurStep)
       IN  IF IsExc(r)
           THEN Commit(r) /\ UNCHANGED scan
           ELSE /\ pc' = "scan"
                /\ scan' = [state |-> r.state, steps_int |-> r.steps_int, k |-> 0,
                            outputs |-> <<>>]
                /\ UNCHANGED <<df, step_no, applied, raised>>
    /\ UNCHANGED result
    /\ Fixed

\* one iteration of `for _ in range(steps_int)`
ScanIter ==
    /\ pc = "scan"
    /\ scan.k < scan.steps_int
    /\ LET r == ScanIteration(scan.state, CurStep)
       IN  IF IsExc(r)
           THEN Commit(r) /\ UNCHANGED scan
           ELSE /\ scan' = [scan EXCEPT !.state = r.state, !.k = scan.k + 1,
                                        !.outputs = Append(scan.outputs, r.val)]
                /\ UNCHANGED <<pc, df, step_no, applied, raised>>
    /\ UNCHANGED result
    /\ Fixed

\* return pl.DataFrame({as_col: outputs})
ScanEnd ==
    /\ pc = "scan"
    /\ scan.k = scan.steps_int
    /\ Commit(ScanFrame(CurStep, scan.outputs))
    /\ scan' = IF IsExc(ScanFrame(CurStep, scan.outputs)) THEN scan ELSE NoScan
    /\ UNCHANGED result
    /\ Fixed

\* df = _apply_sample(df, step)
Sample ==
    /\ AtOp("sample")
    /\ \E r \in _apply_sample(df, CurStep) : Commit(r)
    /\ UNCHANGED <<scan, result>>
    /\ Fixed

\* else: raise DSLExecutionError(f"Unsupported op: {op}")
Unsupported ==
    /\ InLoop
    /\ "op" \in DOMAIN CurStep
    /\ CurStep.op \notin ModelledOps
    /\ Commit([exc |-> DSLExecutionError, msg |-> "Unsupported op", op |-> CurStep.op])
    /\ UNCHANGED <<scan, result>>
    /\ Fixed

\* return {"output": df.to_dicts(), "meta": {"rows": ..., "columns": ...}}
Return ==
    /\ pc = "loop"
    /\ step_no = Len(Steps)
    /\ pc' = "returned"
    /\ result' = [output |-> to_dicts(df),
                  meta |-> [rows |-> Height(df), columns |-> df.columns]]
    /\ UNCHANGED <<df, step_no, applied, scan, raised>>
    /\ Fixed

-----------------------------------------------------------------------------
(* The programs and inputs explored *)

MaxSteps == 2
MaxRows == 2

Var(id) == Text(Name(id))

\* scenario 4 of the specification
FibScan ==
    [op |-> "scan", init |-> [a |-> PyInt(1), b |-> PyInt(1)], steps |-> PyInt(5),
     update |-> << <<"a", Var("b")>>, <<"b", Text(BinOp(Name("a"), "Add", Name("b")))>> >>,
     emit |-> Var("a"), as |-> "line"]

ScanSteps2(update, emit) ==
    [op |-> "scan", init |-> [a |-> PyInt(0), b |-> PyInt(1)], steps |-> PyInt(2),
     update |-> update, emit |-> emit, as |-> "value"]

StepSet ==
    { [op |-> "select", columns |-> <<"a">>],
      [op |-> "select", columns |-> <<"no_such">>],
      [op |-> "select"],
      [columns |-> <<"a">>],
      [op |-> "bogus"],
      [op |-> "filter_expr", expr |-> Text(Compare(Name("a"), <<"GtE">>, <<Constant(PyInt(1))>>))],
      [op |-> "filter_expr",
       expr |-> Text(Compare(Name("row_index"), <<"Eq">>, <<Constant(PyInt(0))>>))],
      [op |-> "filter_expr", expr |-> InvalidText],
      [op |-> "compute_expr", expr |-> Text(BinOp(Name("a"), "Add", Constant(PyInt(1)))),
       as |-> "a"],
      [op |-> "compute_expr", expr |-> Var("row_index"), as |-> "r"],
      [op |-> "compute_expr", expr |-> InvalidText, as |-> "c"],
      [op |-> "compute_expr", expr |-> Text(UnaryOp("USub", Name("a"))), as |-> "a"],
      FibScan,
      \* the update entries in the other order, and a swap
      ScanSteps2(<< <<"b", Text(BinOp(Name("a"), "Add", Name("b")))>>, <<"a", Var("b")>> >>,
                 Var("b")),
      ScanSteps2(<< <<"a", Var("b")>>, <<"b", Var("a")>> >>, EmptyText),
      ScanSteps2(<< <<"c", Var("a")>> >>, Var("row_index")),
      ScanSteps2(<< <<"a", InvalidText>> >>, Var("a")),
      [op |-> "scan", init |-> <<>>, steps |-> PyInt(0), update |-> <<>>,
       emit |-> InvalidText, as |-> "value"],
      [op |-> "scan", init |-> [n |-> PyInt(0)], steps |-> PyInt(MAX_SCAN_STEPS + 1),
       update |-> <<>>, emit |-> Var("n"), as |-> "value"],
      \* the step count at and below the limits, before a failing expression
      [op |-> "scan", init |-> <<>>, steps |-> PyInt(MAX_SCAN_STEPS), update |-> <<>>,
       emit |-> Var("zz"), as |-> "value"],
      [op |-> "scan", init |-> <<>>, steps |-> PyInt(-1), update |-> <<>>,
       emit |-> Var("zz"), as |-> "value"],
      [op |-> "scan", init |-> <<>>, steps_from_row |-> [row |-> 0], update |-> <<>>,
       emit |-> Var("zz"), as |-> "value"],
      \* emitted values of two types, under the default column name
      [op |-> "scan", init |-> [a |-> PyInt(1), b |-> PyStr(<<"a">>)], steps |-> PyInt(2),
       update |-> << <<"a", Var("b")>>, <<"b", Var("a")>> >>, emit |-> Var("a")],
      \* a sample without a seed
      [op |-> "sample", n |-> PyInt(1)],
      [op |-> "scan", init |-> [n |-> PyInt(0)],
       init_from_rows |-> << [var |-> "n", column |-> "a", row |-> 0] >>,
       steps_from_row |-> [column |-> "a", row |-> 1],
       update |-> << <<"n", Text(BinOp(Name("n"), "Add", Constant(PyInt(1))))>> >>,
       emit |-> Var("n"), as |-> "a"] }

RECURSIVE SeqsUpTo(_, _)
SeqsUpTo(S, n) ==
    IF n = 0 THEN {<<>>}
    ELSE SeqsUpTo(S, n - 1) \union {Append(q, x) : q \in SeqsUpTo(S, n - 1), x \in S}

Programs == {[steps |-> q] : q \in SeqsUpTo(StepSet, MaxSteps)}

CellValues == {PyNone, PyInt(1)}

Payloads ==
    {[media_type |-> "json",
      data |-> [kind |-> "list", keys |-> <<"a">>, rows |-> [i \in 1..Len(q) |-> [a |-> q[i]]]]] :
        q \in SeqsUpTo(CellValues, MaxRows)}
    \union {[media_type |-> "text", data |-> [kind |-> "str", chars |-> c]] :
                c \in {<<>>, <<"1", "\n", "2">>, <<"-", "1">>}}
    \union {[media_type |-> "json", data |-> [kind |-> "str", chars |-> <<"a">>]]}

Init ==
    /\ input_payload \in Payloads
    /\ dsl \in Programs
    /\ null_mask_ok \in BOOLEAN
    /\ desc_nulls_last = TRUE
    /\ op_step = NoStep
    /\ repeated = FALSE
    /\ twin = NoTwin
    /\ funcs = _ALLOWED_FUNCS
    /\ threads = <<>>
    /\ pc = "decode"
    /\ df = NoFrame
    /\ step_no = 0
    /\ applied = <<>>
    /\ scan = NoScan
    /\ result = NoResult
    /\ raised = NoFailure
    /\ expr = EmptyText
    /\ env = <<>>
    /\ value = Pending

Next ==
    \/ Decode
    \/ MissingOp
    \/ Select
    \/ FilterExpr
    \/ ComputeExpr
    \/ ScanBegin
    \/ ScanIter
    \/ ScanEnd
    \/ Sample
    \/ Unsupported
    \/ Return

Spec == Init /\ [][Next]_vars

-----------------------------------------------------------------------------
(* Specification of the operations on frames: execute_dsl decodes a table  *)
(* of the columns k and v, and the steps of the program are drawn one by    *)
(* one, each from OpStepSet, as the loop reaches them.                      *)

Desc(b) == [kind |-> "bool", b |-> b]
DescList(items) == [kind |-> "list", items |-> items]

OpStepSet ==
    { [op |-> "select", columns |-> <<"v", "k">>],
      [op |-> "select", columns |-> <<"k">>],
      [op |-> "select", columns |-> <<"k", "k">>],
      [op |-> "select", columns |-> <<"no_such">>],
      [op |-> "rename", mapping |-> << <<"k", "v">> >>],
      [op |-> "rename", mapping |-> << <<"k", "v">>, <<"v", "k">> >>],
      [op |-> "rename", mapping |-> << <<"v", "len">> >>],
      [op |-> "rename", mapping |-> << <<"no_such", "x">> >>],
      [op |-> "cast", mapping |-> << <<"k", "int">> >>],
      [op |-> "cast", mapping |-> << <<"v", "str">> >>],
      [op |-> "cast", mapping |-> << <<"v", "date">> >>],
      [op |-> "cast", mapping |-> << <<"no_such", "int">> >>],
      [op |-> "drop_na"],
      [op |-> "drop_na", columns |-> <<"v">>],
      [op |-> "drop_na", columns |-> <<"no_such">>],
      [op |-> "distinct"],
      [op |-> "distinct", columns |-> <<"k">>],
      [op |-> "distinct", columns |-> <<"no_such">>],
      [op |-> "sort_by", columns |-> <<"k">>],
      [op |-> "sort_by", columns |-> <<"v">>, descending |-> Desc(TRUE)],
      [op |-> "sort_by", columns |-> <<"k", "v">>, descending |-> DescList(<<FALSE, TRUE>>)],
      [op |-> "sort_by", columns |-> <<"k">>, descending |-> DescList(<<FALSE, TRUE>>)],
      [op |-> "sort_by", columns |-> <<"no_such">>],
      [op |-> "group_by_agg", keys |-> <<"k">>,
       aggregations |-> << [func |-> "count", as |-> "n"], [func |-> "max", column |-> "v"] >>],
      [op |-> "group_by_agg", keys |-> <<"k">>,
       aggregations |-> << [func |-> "first", column |-> "no_such"] >>],
      [op |-> "group_by_agg", keys |-> <<"no_such">>, aggregations |-> << [func |-> "count"] >>],
      [op |-> "group_by_agg", aggregations |-> << [func |-> "n_unique", column |-> "k"] >>],
      [op |-> "group_by_agg", keys |-> <<"k">>],
      [op |-> "slice", offset |-> PyInt(1)],
      [op |-> "slice", offset |-> PyInt(0), length |-> PyInt(1)],
      [op |-> "slice", offset |-> PyInt(1), length |-> PyInt(2)],
      [op |-> "slice", offset |-> PyInt(-1)],
      [op |-> "slice", offset |-> PyInt(-1), length |-> PyInt(1)],
      [op |-> "coalesce", columns |-> <<"v">>, as |-> "k"],
      [op |-> "coalesce", columns |-> <<"no_such">>],
      [op |-> "compute_expr", expr |-> Var("len"), as |-> "x"],
      [op |-> "compute_expr", as |-> "x",
       expr |-> Text(Call(Name("len"), <<Constant(PyStr(<<"a">>))>>, <<>>))],
      [op |-> "compute_expr", expr |-> Var("v"), as |-> "k"] }

OpsOf(name) == {s \in OpStepSet : s.op = name}

KCells == {PyNone, PyStr(<<"a">>), PyStr(<<"1">>)}
VCells == {PyNone, PyInt(1), PyInt(2)}

OpPayloads ==
    {[media_type |-> "json",
      data |-> [kind |-> "list", keys |-> <<"k", "v">>, rows |-> q]] :
        q \in SeqsUpTo({[k |-> a, v |-> b] : a \in KCells, b \in VCells}, MaxRows)}

InitOps ==
    /\ input_payload \in OpPayloads
    /\ dsl = [steps |-> <<>>]
    /\ null_mask_ok = TRUE
    /\ desc_nulls_last \in BOOLEAN
    /\ op_step = NoStep
    /\ repeated = FALSE
    /\ twin = NoTwin
    /\ funcs = _ALLOWED_FUNCS
    /\ threads = <<>>
    /\ pc = "decode"
    /\ df = NoFrame
    /\ step_no = 0
    /\ applied = <<>>
    /\ scan = NoScan
    /\ result = NoResult
    /\ raised = NoFailure
    /\ expr = EmptyText
    /\ env = <<>>
    /\ value = Pending

\* the loop is at a step of the program
OpReady == pc = "loop" /\ step_no < MaxSteps

\* the loop body for step s, whose operation gives r; the steps already
\* executed are not recorded
Apply(s, r) ==
    /\ OpReady
    /\ pc' = LoopControl(r).pc
    /\ raised' = LoopControl(r).raised
    /\ df' = LoopControl(r).df
    /\ step_no' = LoopControl(r).step_no
    /\ op_step' = s
    /\ repeated' = (s = op_step)
    /\ UNCHANGED <<input_payload, dsl, null_mask_ok, desc_nulls_last, applied,
                   scan, result, funcs, threads, expr, env, value>>

\* the loop body of execute_dsl, one disjunct per operation of the dispatch chain
NextOps ==
    \/ Decode
    \/ \E s \in OpsOf("select") : Apply(s, _apply_select(df, s)) /\ UNCHANGED twin
    \/ \E s \in OpsOf("rename") : Apply(s, _apply_rename(df, s)) /\ UNCHANGED twin
    \/ \E s \in OpsOf("cast") : Apply(s, _apply_cast(df, s)) /\ UNCHANGED twin
    \/ \E s \in OpsOf("drop_na") : Apply(s, _apply_drop_na(df, s)) /\ UNCHANGED twin
    \/ \E s \in OpsOf("distinct") : Apply(s, _apply_distinct(df, s)) /\ UNCHANGED twin
    \/ \E s \in OpsOf("sort_by") : Apply(s, _apply_sort_by(df, s, desc_nulls_last)) /\ UNCHANGED twin
    \/ \E s \in OpsOf("group_by_agg") : \E r \in _apply_group_by_agg(df, s) : Apply(s, r) /\ UNCHANGED twin
    \/ \E s \in OpsOf("slice") : Apply(s, _apply_slice(df, s)) /\ UNCHANGED twin
    \/ \E s \in OpsOf("coalesce") : Apply(s, _apply_coalesce(df, s)) /\ UNCHANGED twin
    \/ \E s \in OpsOf("compute_expr") : Apply(s, _apply_compute_expr(df, s)) /\ UNCHANGED twin

SpecOps == InitOps /\ [][NextOps]_vars

-----------------------------------------------------------------------------
(* Properties of execute_dsl (specification Spec) *)

Decoded == ~IsExc(_ensure_dataframe(input_payload))
Finished == pc \in {"returned", "raised"}
FailedAtStep == pc = "raised" /\ Decoded

\* what executing the current step on the current frame raises
FailureHere ==
    CASE ~Decoded -> _ensure_dataframe(input_payload)
      [] "op" \notin DOMAIN CurStep -> KeyError("op")
      [] CurStep.op = "select" -> _apply_select(df, CurStep)
      [] CurStep.op = "filter_expr" -> _apply_filter_expr(df, CurStep, null_mask_ok)
      [] CurStep.op = "compute_expr" -> _apply_compute_expr(df, CurStep)
      [] CurStep.op = "sample" -> CHOOSE r \in _apply_sample(df, CurStep) : IsExc(r)
      [] CurStep.op = "scan" ->
            IF scan = NoScan THEN ScanSetup(df, CurStep)
            ELSE IF scan.k < scan.steps_int THEN ScanIteration(scan.state, CurStep)
            ELSE ScanFrame(CurStep, scan.outputs)
      [] OTHER -> [exc |-> DSLExecutionError, msg |-> "Unsupported op", op |-> CurStep.op]

FibOutput == <<PyInt(1), PyInt(1), PyInt(2), PyInt(3), PyInt(5)>>

ScanStepped == pc = "scan" /\ pc' = "scan" /\ scan'.k = scan.k + 1

\* C1: in every iteration of scan each update[var] and emit are evaluated
\* against the state as it was before the iteration: every updated variable
\* gets the value of its expression in the pre-iteration environment, whatever
\* the order of the entries, and the emitted value is computed in that same
\* environment; the Fibonacci program of the specification emits 1,1,2,3,5.
C1_SimultaneousUpdate ==
    /\ [][ScanStepped =>
            LET e == ScanEnv(scan.state)
                update == Get(CurStep, "update", <<>>)
                emit == Get(CurStep, "emit", EmptyText)
            IN  /\ \A i \in 1..Len(update) :
                        scan'.state[update[i][1]] = _eval_expr(update[i][2], e).v
                /\ scan'.outputs =
                        Append(scan.outputs,
                               IF emit.src = "empty" THEN PyNone ELSE _eval_expr(emit, e).v)]_vars
    /\ [](pc = "returned" /\ Steps = <<FibScan>> =>
            result.output = [i \in 1..5 |-> [line |-> FibOutput[i]]])

\* C1 witness: the Fibonacci scan has run its five iterations
C1_Witness ==
    pc = "scan" /\ CurStep = FibScan /\ scan.k = 5 /\ scan.outputs = FibOutput

\* C2: once a step has failed, execution has halted at that step: the steps
\* before it, and no other, were applied, nothing more can happen, nothing is
\* returned, and the failure surfaced is the one that step raises on the frame
\* the earlier steps produced.
C2_HaltsAtFirstFailure ==
    raised # NoFailure =>
        /\ pc = "raised"
        /\ result = NoResult
        /\ applied = [i \in 1..step_no |-> i - 1]
        /\ ~ENABLED Next
        /\ raised = FailureHere

\* C2 witness: step 0 of a two-step program failed, and step 1 would fail too
C2_Witness ==
    /\ pc = "raised" /\ Decoded /\ step_no = 0 /\ Len(Steps) = 2
    /\ raised.msg = "missing columns"
    /\ Steps[2] = [op |-> "bogus"]

\* the closed operation set and the required fields of the specification
ClosedOps ==
    {"regex_extract", "regex_extract_multi", "regex_replace", "replace_values", "lookup",
     "select", "rename", "drop", "cast", "fill_null", "coalesce", "filter_eq",
     "filter_regex", "drop_na", "slice", "head", "tail", "sample", "json_extract",
     "take_every", "add_row_number", "filter_expr", "compute_expr", "concat_columns",
     "split_column", "to_datetime", "scan", "group_by_agg", "sort_by", "distinct",
     "explode", "split_to_rows", "pivot_wider", "pivot_longer", "window_cumsum", "rank",
     "rolling_mean", "rolling_sum"}

RequiredFields(op) ==
    CASE op = "select" -> {"columns"}
      [] op = "filter_expr" -> {"expr"}
      [] op = "compute_expr" -> {"expr", "as"}
      [] op = "scan" -> {"init", "update", "emit", "as"}
      [] OTHER -> {}

Malformed(step) ==
    \/ "op" \notin DOMAIN step
    \/ step.op \notin ClosedOps
    \/ ~(RequiredFields(step.op) \subseteq DOMAIN step)

\* C3: a program with a malformed step at any position is rejected before any
\* step is executed: no step is ever applied and execution ends in a typed
\* validation failure.
C3_ValidatedBeforeExecution ==
    (Decoded /\ \E i \in 1..Len(Steps) : Malformed(Steps[i])) =>
        /\ applied = <<>>
        /\ Finished => (pc = "raised" /\ raised.exc = DSLExecutionError /\ step_no = 0)

\* the step index and the operation name a failure carries, when it does
FailureStepIndex(f) == IF "step_index" \in DOMAIN f THEN f.step_index ELSE -1
FailureOp(f) == IF "op" \in DOMAIN f THEN f.op ELSE "none"

\* C4: a failure raised by a step carries the 0-based index of the step and
\* the name of its op.
C4_FailureNamesStep ==
    FailedAtStep =>
        /\ FailureStepIndex(raised) = step_no
        /\ "op" \in DOMAIN CurStep => FailureOp(raised) = CurStep.op

\* C5: execute ends in a result or in a typed failure (DSLExecutionError);
\* no other exception escapes.
C5_OnlyTypedFailures ==
    /\ pc = "raised" => raised.exc = DSLExecutionError
    /\ pc = "returned" => raised = NoFailure

UnparseableIn(step) ==
    /\ "op" \in DOMAIN step
    /\ \/ step.op \in {"filter_expr", "compute_expr"} /\ "expr" \in DOMAIN step
          /\ step.expr.src # "tree"
       \/ step.op = "scan"
          /\ \/ Get(step, "emit", EmptyText).src = "invalid"
             \/ \E i \in 1..Len(Get(step, "update", <<>>)) : step.update[i][2].src # "tree"

\* C7: executing a filter_expr, compute_expr or scan step whose expression
\* text does not parse fails at that step with an expression error carrying
\* the step index, on every frame (also one without rows, also for N = 0).
C7_ParseErrorAtExecution ==
    /\ \A i \in 1..Len(applied) : ~UnparseableIn(Steps[applied[i] + 1])
    /\ (FailedAtStep /\ UnparseableIn(CurStep)) =>
            /\ raised.exc = DSLExecutionError
            /\ raised.msg = "Invalid expression syntax"
            /\ FailureStepIndex(raised) = step_no

\* C10: row_index is bound, zero-based, in every environment the interpreter
\* builds: to i for row i of filter_expr and compute_expr, to k in iteration k
\* of scan.
C10_RowIndexBound ==
    /\ (InLoop /\ "op" \in DOMAIN CurStep /\ CurStep.op \in {"filter_expr", "compute_expr"}) =>
            \A i \in 1..Height(df) :
                LET e == RowEnv(to_dicts(df)[i], i - 1)
                IN  "row_index" \in DOMAIN e /\ e["row_index"] = PyInt(i - 1)
    /\ (pc = "scan" /\ scan.k < scan.steps_int) =>
            LET e == ScanEnv(scan.state)
            IN  "row_index" \in DOMAIN e /\ e["row_index"] = PyInt(scan.k)

\* every iteration of the scan at the current step has run without failure
ScanLoopDone == pc = "scan" /\ scan.k = scan.steps_int

\* C11: a scan with a valid step count N whose expressions all evaluated
\* without failure returns a frame of exactly one column, named by `as`
\* (default "value"), with exactly N rows, the emitted values; nothing of the
\* input frame is in it.
C11_ScanShape ==
    [][ScanLoopDone =>
            /\ pc' = "loop"
            /\ df'.columns = <<Get(CurStep, "as", "value")>>
            /\ Height(df') = scan.steps_int
            /\ df'.data[df'.columns[1]] = scan.outputs]_vars

\* the scan at the current step has a step count: the value of `steps`, or
\* of the steps_from_row cell, which int() accepts
HasScanN ==
    /\ AtOp("scan")
    /\ ~IsExc(ScanSteps(df, CurStep))
    /\ ScanSteps(df, CurStep).v # PyNone
    /\ ~IsExc(PyIntCast(ScanSteps(df, CurStep).v))

ScanN == PyIntCast(ScanSteps(df, CurStep).v).v.n

\* C12: a scan whose step count N is negative or greater than 100000 fails
\* before any update or emit expression is evaluated (no iteration runs); a
\* scan with 0 <= N <= 100000 whose state was seeded enters its loop with
\* exactly N iterations to run, so 0 and 100000 are accepted.
C12_ScanStepRange ==
    /\ [][HasScanN =>
            IF ScanN < 0 \/ ScanN > 100000
            THEN pc' = "raised" /\ raised' # NoFailure /\ scan' = NoScan
            ELSE \/ pc' = "scan" /\ scan'.steps_int = ScanN /\ scan'.k = 0
                                /\ scan'.outputs = <<>>
                 \/ pc' = "raised" /\ "init_from_rows" \in DOMAIN CurStep]_vars
    /\ [](pc = "scan" => scan.steps_int \in 0..100000)

\* C12 witness: a scan with N = -1, read from a cell, was rejected
C12_Witness ==
    /\ pc = "raised" /\ Decoded /\ "op" \in DOMAIN CurStep /\ CurStep.op = "scan"
    /\ "steps_from_row" \in DOMAIN CurStep
    /\ ScanSteps(df, CurStep) = Ok(PyInt(-1))
    /\ raised.msg = "scan: steps out of allowed range (0..100000)"

-----------------------------------------------------------------------------
(* Properties of _eval_expr (specification SpecExpr) *)

Evaluated == value # Pending

\* the direct sub-expressions of a node
Children(n) ==
    CASE n.node = "UnaryOp" -> <<n.operand>>
      [] n.node = "BoolOp" -> n.values
      [] n.node = "BinOp" -> <<n.left, n.right>>
      [] n.node = "Compare" -> <<n.left>> \o n.comparators
      [] n.node = "Call" -> <<n.func>> \o n.args
      [] n.node = "IfExp" -> <<n.test, n.body, n.orelse>>
      [] n.node = "Attribute" -> <<n.value>>
      [] n.node = "Subscript" -> <<n.value, n.slice>>
      [] OTHER -> <<>>

\* the text contains attribute access, a subscript or a name not bound in e
RECURSIVE HasDisallowed(_, _)
HasDisallowed(n, e) ==
    \/ n.node \in {"Attribute", "Subscript"}
    \/ n.node = "Name" /\ n.id \notin DOMAIN e
    \/ \E i \in 1..Len(Children(n)) : HasDisallowed(Children(n)[i], e)

\* C6: an expression containing attribute access, a subscript or an unbound
\* identifier, anywhere in it, fails with an expression error in every
\* environment and yields no value.
C6_DisallowedNeverEvaluates ==
    (Evaluated /\ expr.src = "tree" /\ HasDisallowed(expr.tree, env)) =>
        value.exc = DSLExecutionError

IsLeaf(n) == n.node \in {"Constant", "Name"}
LeafValue(n) == _eval(n, env).v
NullLeaf(n) == IsLeaf(n) /\ ~IsExc(_eval(n, env)) /\ LeafValue(n) = PyNone
GoodLeaf(n) == IsLeaf(n) /\ ~IsExc(_eval(n, env))

\* the expression applies an arithmetic operator to operands of which one is null
NullArithmetic ==
    /\ expr.src = "tree"
    /\ \/ expr.tree.node = "UnaryOp" /\ expr.tree.op \in {"USub", "UAdd"}
          /\ NullLeaf(expr.tree.operand)
       \/ expr.tree.node = "BinOp" /\ expr.tree.op \in _ALLOWED_BINOPS
          /\ GoodLeaf(expr.tree.left) /\ GoodLeaf(expr.tree.right)
          /\ (NullLeaf(expr.tree.left) \/ NullLeaf(expr.tree.right))

\* C8: an arithmetic operator applied to a null operand fails with a typed
\* expression error: it yields no value and no untyped failure.
C8_NullArithmeticFails ==
    (Evaluated /\ NullArithmetic) => value.exc = DSLExecutionError

\* the expression is one comparison, not `is` / `is not`, with a null operand
NullComparison ==
    /\ expr.src = "tree"
    /\ expr.tree.node = "Compare" /\ Len(expr.tree.ops) = 1
    /\ expr.tree.ops[1] \notin {"Is", "IsNot"}
    /\ GoodLeaf(expr.tree.left) /\ GoodLeaf(expr.tree.comparators[1])
    /\ (NullLeaf(expr.tree.left) \/ NullLeaf(expr.tree.comparators[1]))

\* C9: a comparison with a null operand by ==, !=, <, <=, >, >=, in or not in
\* evaluates to false: never to true, never to an error.
C9_NullComparisonIsFalse ==
    (Evaluated /\ NullComparison) => value = Ok(PyBool(FALSE))

------------------------------------------------------------------------------
(* String columns: concat_columns and split_column.  A delimiter is one    *)
(* character.                                                              *)

RECURSIVE JoinChars(_, _)
JoinChars(parts, sep) ==
    IF Len(parts) = 0 THEN <<>>
    ELSE IF Len(parts) = 1 THEN parts[1]
    ELSE parts[1] \o sep \o JoinChars(Tail(parts), sep)

\* pl.concat_str(cells cast to Utf8, separator=sep) for one row: null if any
\* of the cells is null
concat_str(cells, sep) ==
    IF \E i \in 1..Len(cells) : cells[i] = PyNone THEN PyNone
    ELSE PyStr(JoinChars([i \in 1..Len(cells) |-> CastValue("str", cells[i]).s], sep))

_apply_concat_columns(d, step) ==
    IF "columns" \notin DOMAIN step THEN KeyError("columns")
    ELSE IF Len(step.columns) = 0
         THEN Raise(DSLExecutionError, "concat_columns: 'columns' is required")
    ELSE IF IsExc(_require_columns(d, step.columns, "concat_columns"))
         THEN _require_columns(d, step.columns, "concat_columns")
    ELSE with_columns(d, Get(step, "as", "line"),
            [r \in 1..Height(d) |->
                concat_str([i \in 1..Len(step.columns) |-> d.data[step.columns[i]][r]],
                           Get(step, "delimiter", <<>>))])

\* str.split_exact(sep, n, inclusive=False) of one cell: a struct of n + 1
\* fields, the first n + 1 pieces; fields without a piece are null, pieces
\* beyond them are dropped
split_exact(cell, sep, n) ==
    [i \in 1..(n + 1) |->
        IF cell = PyNone THEN PyNone
        ELSE LET pieces == SplitOn(CastValue("str", cell).s, sep, <<>>)
             IN  IF i <= Len(pieces) THEN PyStr(pieces[i]) ELSE PyNone]

\* df.with_columns([field(i).alias(name) for i, name in enumerate(into)]) and
\* the drop of the original column
SplitFrame(d, column, into, sep, n_parts, drop_original) ==
    LET cols == d.columns \o SelectSeq(into, LAMBDA c : c \notin Range(d.columns))
        kept == SelectSeq(cols, LAMBDA c : ~(drop_original /\ c = column))
        Pos(c) == CHOOSE i \in 1..Len(into) : into[i] = c
    IN  Frame(kept,
              [c \in Range(kept) |->
                IF c \in Range(into)
                THEN [r \in 1..Height(d) |-> split_exact(d.data[column][r], sep, n_parts)[Pos(c)]]
                ELSE d.data[c]])

_apply_split_column(d, step) ==
    IF "column" \notin DOMAIN step THEN KeyError("column")
    ELSE IF Len(Get(step, "into", <<>>)) = 0
         THEN Raise(DSLExecutionError, "split_column: 'into' is required")
    ELSE IF IsExc(_require_columns(d, <<step.column>>, "split_column"))
         THEN _require_columns(d, <<step.column>>, "split_column")
    ELSE IF ~NoDuplicates(step.into)
         THEN Raise(DSLExecutionError, "split_column: library error")
    ELSE OkDf(SplitFrame(d, step.column, step.into, Get(step, "delimiter", <<",">>),
                         IF Len(step.into) - 1 > 1 THEN Len(step.into) - 1 ELSE 1,
                         Truthy(Get(step, "drop_original", PyBool(FALSE)))))

------------------------------------------------------------------------------
(* Pivot operations.  The pivot column holds strings of one character,     *)
(* which become column names; values names one column.                     *)

\* df.pivot(values=values, index=index, columns=columns,
\* aggregate_function="first"): one row per key tuple and one column per
\* value of the pivot column, both in order of first appearance; a cell is the
\* first value of its key tuple and pivot value, or null where there is none
pivot(d, values, index, columns) ==
    IF ~(({values, columns} \union Range(index)) \subseteq Range(d.columns)) THEN ColumnNotFound
    ELSE LET firsts == FirstOfGroups(d, <<columns>>)
             names == [i \in 1..Len(firsts) |-> d.data[columns][firsts[i]].s[1]]
             groups == FirstOfGroups(d, index)
             Hits(g, n) == SelectSeq(GroupRows(d, index, g),
                                     LAMBDA r : d.data[columns][r].s[1] = n)
         IN  IF ~NoDuplicates(index \o names) THEN DuplicateError
             ELSE OkDf(Frame(index \o names,
                    [c \in Range(index \o names) |->
                        IF c \in Range(index)
                        THEN [g \in 1..Len(groups) |-> d.data[c][groups[g]]]
                        ELSE [g \in 1..Len(groups) |->
                                IF Len(Hits(groups[g], c)) = 0 THEN PyNone
                                ELSE d.data[values][Hits(groups[g], c)[1]]]]))

_apply_pivot_wider(d, step) ==
    IF "column" \notin DOMAIN step THEN KeyError("column")
    ELSE IF Len(Get(step, "keys", <<>>)) = 0
         THEN Raise(DSLExecutionError, "pivot_wider: 'keys' is required")
    ELSE IF IsExc(_require_columns(d, step.keys \o <<step.column>>, "pivot_wider"))
         THEN _require_columns(d, step.keys \o <<step.column>>, "pivot_wider")
    ELSE IF "values" \notin DOMAIN step \/ IsExc(pivot(d, step.values, step.keys, step.column))
         THEN Raise(DSLExecutionError, "pivot_wider: library error")
    ELSE pivot(d, step.values, step.keys, step.column)

\* df.melt(id_vars=id_vars, value_vars=None, variable_name=..., value_name=...):
\* for every other column in turn, one row per input row
melt(d, id_vars, var_name, val_name) ==
    LET vcols == SelectSeq(d.columns, LAMBDA c : c \notin Range(id_vars))
        h == Height(d)
        n == Len(vcols) * h
        Col(i) == vcols[((i - 1) \div h) + 1]
        Row(i) == ((i - 1) % h) + 1
        cols == id_vars \o <<var_name, val_name>>
    IN  IF ~(Range(id_vars) \subseteq Range(d.columns)) THEN ColumnNotFound
        ELSE IF ~NoDuplicates(cols) THEN DuplicateError
        ELSE IF ~SeriesOk([i \in 1..n |-> d.data[Col(i)][Row(i)]]) THEN SeriesErr
        ELSE OkDf(Frame(cols,
                [c \in Range(cols) |->
                    [i \in 1..n |->
                        IF c = val_name THEN d.data[Col(i)][Row(i)]
                        ELSE IF c = var_name THEN PyStr(<<Col(i)>>)
                        ELSE d.data[c][Row(i)]]]))

\* _apply_pivot_longer for a step without value_vars
_apply_pivot_longer(d, step) ==
    IF IsExc(_require_columns(d, Get(step, "id_vars", <<>>), "pivot_longer"))
    THEN _require_columns(d, Get(step, "id_vars", <<>>), "pivot_longer")
    ELSE IF IsExc(melt(d, Get(step, "id_vars", <<>>), Get(step, "variable_name", "variable"),
                       Get(step, "value_name", "value")))
         THEN Raise(DSLExecutionError, "pivot_longer: library error")
    ELSE melt(d, Get(step, "id_vars", <<>>), Get(step, "variable_name", "variable"),
              Get(step, "value_name", "value"))

------------------------------------------------------------------------------
(* take_every, written out in the dispatch chain of execute_dsl             *)

\* df.drop(columns)
drop(d, columns) ==
    LET kept == SelectSeq(d.columns, LAMBDA c : c \notin Range(columns))
    IN  Frame(kept, [c \in Range(kept) |-> d.data[c]])

\* the branch op == "take_every": a column row_index is added (or written
\* over the column of that name), the rows are filtered by it, and it is dropped
_apply_take_every(d, step) ==
    LET n == PyIntCast(Get(step, "n", PyInt(1)))
        offset == PyIntCast(Get(step, "offset", PyInt(0)))
    IN  IF IsExc(n) THEN [exc |-> n.exc, msg |-> n.msg]
        ELSE IF IsExc(offset) THEN [exc |-> offset.exc, msg |-> offset.msg]
        ELSE IF n.v.n <= 0 THEN Raise(DSLExecutionError, "take_every: 'n' must be >= 1")
        ELSE LET numbered == with_columns(d, "row_index", [i \in 1..Height(d) |-> PyInt(i - 1)]).df
                 mask == [i \in 1..Height(d) |->
                            (numbered.data["row_index"][i].n % n.v.n) = (offset.v.n % n.v.n)]
             IN  OkDf(drop(Frame(numbered.columns,
                                 [c \in Range(numbered.columns) |-> Keep(numbered.data[c], mask)]),
                           <<"row_index">>))

------------------------------------------------------------------------------
(* Specification of the string, pivot and row-selection operations: the    *)
(* loop of execute_dsl over steps drawn from ShapeStepSet, on frames of a  *)
(* string column k and an integer column v.                                *)

Comma == <<",">>

ShapeStepSet ==
    { [op |-> "concat_columns", columns |-> <<"k", "v">>, delimiter |-> Comma, as |-> "t"],
      [op |-> "concat_columns", columns |-> <<"k">>, delimiter |-> Comma, as |-> "t"],
      [op |-> "concat_columns", columns |-> <<"no_such">>],
      [op |-> "split_column", column |-> "t", delimiter |-> Comma, into |-> <<"d1", "d2">>],
      [op |-> "split_column", column |-> "t", delimiter |-> Comma, into |-> <<"d1">>],
      [op |-> "split_column", column |-> "k", delimiter |-> Comma, into |-> <<"k", "d2">>,
       drop_original |-> PyBool(TRUE)],
      [op |-> "split_column", column |-> "t"],
      [op |-> "pivot_wider", keys |-> <<"g">>, column |-> "c", values |-> "v"],
      [op |-> "pivot_wider", column |-> "c", values |-> "v"],
      [op |-> "pivot_longer", id_vars |-> <<"g">>, variable_name |-> "c", value_name |-> "v"],
      [op |-> "pivot_longer", id_vars |-> <<"no_such">>],
      [op |-> "take_every", n |-> PyInt(2)],
      [op |-> "take_every", n |-> PyInt(2), offset |-> PyInt(3)],
      [op |-> "take_every", n |-> PyInt(1), offset |-> PyInt(-1)],
      [op |-> "take_every", n |-> PyInt(0)] }

ShapeOpsOf(name) == {s \in ShapeStepSet : s.op = name}

ShapePayloads ==
    {[media_type |-> "json",
      data |-> [kind |-> "list", keys |-> <<"k", "v">>, rows |-> q]] :
        q \in SeqsUpTo({[k |-> a, v |-> b] :
                            a \in {PyNone, PyStr(<<"a">>), PyStr(<<"b", ",">>)},
                            b \in {PyNone, PyInt(1)}}, MaxRows)}
    \union
    {[media_type |-> "json",
      data |-> [kind |-> "list", keys |-> <<"g", "c", "v">>, rows |-> q]] :
        q \in SeqsUpTo({[g |-> a, c |-> b, v |-> x] :
                            a \in {PyStr(<<"a">>), PyStr(<<"b">>)},
                            b \in {PyStr(<<"x">>), PyStr(<<"y">>)},
                            x \in {PyNone, PyInt(1)}}, MaxRows) \ {<<>>}}
    \union
    {[media_type |-> "json",
      data |-> [kind |-> "list", keys |-> <<"k", "row_index">>, rows |-> q]] :
        q \in SeqsUpTo({[k |-> PyStr(<<"a">>), row_index |-> x] : x \in {PyNone, PyInt(1)}},
                       MaxRows) \ {<<>>}}

InitShape ==
    /\ input_payload \in ShapePayloads
    /\ dsl = [steps |-> <<>>]
    /\ null_mask_ok \in BOOLEAN
    /\ desc_nulls_last = TRUE
    /\ op_step = NoStep
    /\ repeated = FALSE
    /\ twin = NoTwin
    /\ funcs = _ALLOWED_FUNCS
    /\ threads = <<>>
    /\ pc = "decode"
    /\ df = NoFrame
    /\ step_no = 0
    /\ applied = <<>>
    /\ scan = NoScan
    /\ result = NoResult
    /\ raised = NoFailure
    /\ expr = EmptyText
    /\ env = <<>>
    /\ value = Pending

NextShape ==
    \/ Decode
    \/ \E s \in ShapeOpsOf("concat_columns") :
            Apply(s, _apply_concat_columns(df, s)) /\ UNCHANGED twin
    \/ \E s \in ShapeOpsOf("split_column") :
            Apply(s, _apply_split_column(df, s)) /\ UNCHANGED twin
    \/ \E s \in ShapeOpsOf("pivot_wider") :
            Apply(s, _apply_pivot_wider(df, s)) /\ UNCHANGED twin
    \/ \E s \in ShapeOpsOf("pivot_longer") :
            Apply(s, _apply_pivot_longer(df, s)) /\ UNCHANGED twin
    \/ \E s \in ShapeOpsOf("take_every") :
            Apply(s, _apply_take_every(df, s)) /\ UNCHANGED twin

SpecShape == InitShape /\ [][NextShape]_vars

------------------------------------------------------------------------------
(* Specification of two execute_dsl calls on one program and one input.    *)
(* The calls run the steps of SpecOps side by side; each draws its own     *)
(* outcome from those the operation can produce.                           *)

\* the if-chain of execute_dsl: every outcome of df = _apply_x(df, step)
Dispatch(d, s) ==
    CASE s.op = "select" -> {_apply_select(d, s)}
      [] s.op = "rename" -> {_apply_rename(d, s)}
      [] s.op = "cast" -> {_apply_cast(d, s)}
      [] s.op = "drop_na" -> {_apply_drop_na(d, s)}
      [] s.op = "distinct" -> {_apply_distinct(d, s)}
      [] s.op = "sort_by" -> {_apply_sort_by(d, s, desc_nulls_last)}
      [] s.op = "group_by_agg" -> _apply_group_by_agg(d, s)
      [] s.op = "slice" -> {_apply_slice(d, s)}
      [] s.op = "coalesce" -> {_apply_coalesce(d, s)}
      [] s.op = "compute_expr" -> {_apply_compute_expr(d, s)}
      [] OTHER -> {Raise(DSLExecutionError, "Unsupported op")}

\* the second call: df = _ensure_dataframe(input_payload)
TwinDecode ==
    /\ pc = "loop" /\ step_no = 0 /\ twin = NoTwin
    /\ twin' = LET r == _ensure_dataframe(input_payload)
               IN  IF IsExc(r) THEN [pc |-> "raised", df |-> NoFrame, raised |-> r]
                   ELSE [pc |-> "loop", df |-> r.df, raised |-> NoFailure]
    /\ UNCHANGED <<input_payload, dsl, null_mask_ok, desc_nulls_last, pc, df, step_no,
                   applied, op_step, repeated, funcs, threads, scan, result, raised,
                   expr, env, value>>

\* the loop body of the second call for the outcome r
TwinControl(r) ==
    IF IsExc(r) THEN [pc |-> "raised", df |-> twin.df, raised |-> r]
    ELSE [pc |-> "loop", df |-> r.df, raised |-> twin.raised]

\* both calls execute the next step of the program
RunBoth ==
    /\ OpReady
    /\ twin # NoTwin /\ twin.pc = "loop"
    /\ \E s \in OpStepSet : \E r \in Dispatch(df, s) : \E r2 \in Dispatch(twin.df, s) :
            Apply(s, r) /\ twin' = TwinControl(r2)

NextTwo ==
    \/ Decode
    \/ TwinDecode
    \/ RunBoth

SpecTwo == InitOps /\ [][NextTwo]_vars

------------------------------------------------------------------------------
(* Specification of concurrent executions: two threads, each in the row    *)
(* loop of _apply_compute_expr over its own rows and expression, their     *)
(* steps interleaved.  Building the environment of a row and evaluating    *)
(* the expression in it are separate steps.  The module-level table is the *)
(* one object both threads reach.                                          *)

Threads == {1, 2}

\* faulty variant of EnvCopy: the row is written into the module-level table
\* itself (_ALLOWED_FUNCS.update(row)), which then serves as the environment
EnvInPlace(table, row, idx) ==
    [env |-> Merge(Merge(table, row), [row_index |-> PyInt(idx)]),
     funcs |-> Merge(Merge(table, row), [row_index |-> PyInt(idx)])]

\* env = {**_ALLOWED_FUNCS, **row, "row_index": idx}: a new dict, built from
\* the table as it is now; the table is read, not written
EnvCopy(table, row, idx) ==
    [env |-> Merge(Merge(table, row), [row_index |-> PyInt(idx)]),
     funcs |-> table]

\* rows = df.to_dicts() of a frame of one column, and the expression
ThreadInputs ==
    {[text |-> e, rows |-> [i \in 1..Len(q) |-> (c :> q[i])]] :
        e \in {Var("x"), Var("y"), Var("len")},
        c \in {"x", "len"},
        q \in SeqsUpTo({PyInt(1), PyInt(2)}, MaxRows) \ {<<>>}}

InitConc ==
    /\ Idle
    /\ expr = EmptyText /\ env = <<>> /\ value = Pending
    /\ funcs = _ALLOWED_FUNCS
    /\ \E a, b \in ThreadInputs :
            threads = [t \in Threads |->
                        [pc |-> "env", text |-> (IF t = 1 THEN a ELSE b).text,
                         rows |-> (IF t = 1 THEN a ELSE b).rows, i |-> 1, env |-> <<>>,
                         values |-> <<>>, raised |-> NoFailure]]

CallIdle ==
    UNCHANGED <<input_payload, dsl, null_mask_ok, desc_nulls_last, pc, df, step_no, applied,
                op_step, repeated, twin, scan, result, raised, expr, env, value>>

\* for idx, row in enumerate(rows): env = {...}
BuildEnv(t) ==
    /\ threads[t].pc = "env"
    /\ LET b == EnvCopy(funcs, threads[t].rows[threads[t].i], threads[t].i - 1)
       IN  /\ threads' = [threads EXCEPT ![t].env = b.env, ![t].pc = "eval"]
           /\ funcs' = b.funcs
    /\ CallIdle

\* values.append(_eval_expr(expr, env)), then the next row or the end of the loop
EvalRow(t) ==
    /\ threads[t].pc = "eval"
    /\ LET x == _eval_expr(threads[t].text, threads[t].env)
       IN  threads' =
            IF IsExc(x) THEN [threads EXCEPT ![t].pc = "raised", ![t].raised = x]
            ELSE [threads EXCEPT ![t].values = Append(@, x.v), ![t].i = @ + 1,
                                 ![t].pc = IF threads[t].i = Len(threads[t].rows)
                                           THEN "done" ELSE "env"]
    /\ UNCHANGED funcs
    /\ CallIdle

NextConc == \E t \in Threads : BuildEnv(t) \/ EvalRow(t)

SpecConc == InitConc /\ [][NextConc]_vars

(***************************************************************************)
(* Properties of the operations, over SpecOps.  A step of SpecOps applies  *)
(* the operation op_step' to the frame df and leaves its result in df', or *)
(* its failure in raised'.                                                 *)
(***************************************************************************)

\* the columns a step names and requires to exist
NamedColumns(s) ==
    IF s.op \in {"rename", "cast"} THEN Keys(s.mapping)
    ELSE IF s.op = "group_by_agg"
    THEN LET nc == SelectSeq(Get(s, "aggregations", <<>>),
                            LAMBDA a : a.func # "count" /\ "column" \in DOMAIN a)
         IN  Get(s, "keys", <<>>) \o [i \in 1..Len(nc) |-> nc[i].column]
    ELSE IF s.op \in {"select", "drop_na", "distinct", "sort_by", "coalesce"}
    THEN Get(s, "columns", <<>>)
    ELSE <<>>

\* the named columns the frame lacks
MissingNamed(d, s) == SelectSeq(NamedColumns(s), LAMBDA c : c \notin Range(d.columns))

\* C13: an operation that names a column the frame lacks fails with the
\* uniform missing-columns failure, which carries the operation, the missing
\* names and the available columns -- for sort_by, distinct and group_by_agg
\* as for select, rename and cast.
C13_UniformMissingColumns ==
    [][(OpReady /\ MissingNamed(df, op_step') # <<>>) =>
            /\ pc' = "raised"
            /\ raised' = [exc |-> DSLExecutionError, msg |-> "missing columns",
                          op |-> op_step'.op, missing |-> MissingNamed(df, op_step'),
                          available |-> df.columns]]_vars

\* a compute_expr step whose expression is the bare name len
ShadowStep(s) == s.op = "compute_expr" /\ s.expr = Var("len")

ShapeOk(d) ==
    /\ NoDuplicates(d.columns)
    /\ DOMAIN d.data = Range(d.columns)
    /\ \A c \in Range(d.columns) : Len(d.data[c]) = Height(d)

GroupStep(s) == s.op = "group_by_agg" /\ Get(s, "keys", <<>>) # <<>>

\* the key tuples of the rows of a frame, in row order
KeyRows(d, keys) == [i \in 1..Height(d) |-> RowKey(d, i, keys)]

\* the distinct key tuples of a frame in the order of their first appearance
DistinctKeyRows(d, keys) ==
    [g \in 1..Len(FirstOfGroups(d, keys)) |-> RowKey(d, FirstOfGroups(d, keys)[g], keys)]

\* C17: group_by_agg with keys returns one row per distinct key tuple of its
\* input, the rows in the order in which the key tuples first appear.
C17_GroupsInFirstAppearanceOrder ==
    [][(OpReady /\ GroupStep(op_step') /\ pc' = "loop") =>
            KeyRows(df', op_step'.keys) = DistinctKeyRows(df, op_step'.keys)]_vars

\* the operations said to be idempotent
IdempotentOps == {"select", "distinct", "drop_na", "sort_by"}

HalfOpenRange(h, offset, length) ==
    LET a == IF offset > h THEN h ELSE offset
        stop == IF length = PyNone THEN h ELSE offset + length.n
        b == IF stop > h THEN h ELSE IF stop < a THEN a ELSE stop
    IN  [i \in 1..(b - a) |-> a + i]

\* C20: slice with a negative offset fails and yields no frame; with an
\* offset >= 0 it yields the rows [offset, offset + length), clamped to the
\* height, in their original order.
C20_SliceRange ==
    [][(OpReady /\ op_step'.op = "slice") =>
            IF op_step'.offset.n < 0
            THEN pc' = "raised" /\ raised' # NoFailure /\ df' = df
            ELSE /\ pc' = "loop"
                 /\ df' = take(df, HalfOpenRange(Height(df), op_step'.offset.n,
                                                 Get(op_step', "length", PyNone)))]_vars

(***************************************************************************)
(* Properties of two executions, over SpecTwo.                             *)
(***************************************************************************)

\* C14: two executions of one program on one input (neither a sample step nor
\* today/now is among the operations) are in the same state after every step:
\* the same frame -- rows, row order, column order -- or the same failure.
C14_Determinism ==
    (twin # NoTwin) => (twin.pc = pc /\ twin.df = df /\ twin.raised = raised)

(***************************************************************************)
(* Properties of concurrent executions, over SpecConc.                     *)
(***************************************************************************)

\* what the row loop of thread t gives when it runs alone
Alone(t) == EvalRows(threads[t].text, threads[t].rows, 1)

\* C15: however the steps of two executions interleave, the module-level
\* table is never modified, and each execution ends as it does alone: with
\* the same values, or with the same failure.
C15_Reentrant ==
    /\ funcs = _ALLOWED_FUNCS
    /\ \A t \in Threads :
        /\ threads[t].pc = "done" =>
                ~IsExc(Alone(t)) /\ threads[t].values = Alone(t).values
        /\ threads[t].pc = "raised" =>
                IsExc(Alone(t)) /\ threads[t].raised.exc = Alone(t).exc
                /\ threads[t].raised.msg = Alone(t).msg

\* thread 1 has finished over rows of column len while thread 2, which reads
\* the name len and has no such column, is between its rows
C15_Witness ==
    /\ threads[1].pc = "done" /\ threads[1].values = <<PyInt(1), PyInt(2)>>
    /\ DOMAIN threads[1].rows[1] = {"len"}
    /\ threads[2].text = Var("len") /\ DOMAIN threads[2].rows[1] = {"x"}
    /\ threads[2].pc = "env" /\ threads[2].i = 2
    /\ threads[2].values = <<PyFunc("len")>>

(***************************************************************************)
(* Further properties of execute_dsl, over Spec.                           *)
(***************************************************************************)

\* a sample step without a seed is among the steps executed
SampledUnseeded ==
    \E i \in 1..Len(applied) :
        LET s == Steps[applied[i] + 1]
        IN  "op" \in DOMAIN s /\ s.op = "sample" /\ "seed" \notin DOMAIN s

\* the keys of meta that every result has
PlainMeta == {"rows", "columns"}

\* C21: the meta of a returned result carries a mark of non-determinism, a
\* key beyond rows and columns, exactly when the program executed a sample
\* step without a seed.
C21_UnseededSampleMarked ==
    pc = "returned" => (SampledUnseeded <=> DOMAIN result.meta # PlainMeta)

(***************************************************************************)
(* Properties of the string, pivot and row-selection operations, over      *)
(* SpecShape.                                                              *)
(***************************************************************************)

\* does the text of a cell contain the delimiter
HasDelimiter(cell, sep) ==
    cell # PyNone /\ \E i \in 1..Len(CastValue("str", cell).s) : CastValue("str", cell).s[i] = sep[1]

\* the last step concatenated columns under a delimiter that none of their
\* values contains, and the next step splits the result by that delimiter
\* into as many columns
RoundTripStep(c, s) ==
    /\ c.op = "concat_columns" /\ s.op = "split_column"
    /\ "as" \in DOMAIN c /\ "column" \in DOMAIN s /\ s.column = c.as
    /\ "delimiter" \in DOMAIN c /\ "delimiter" \in DOMAIN s /\ s.delimiter = c.delimiter
    /\ "into" \in DOMAIN s /\ Len(s.into) = Len(c.columns)
    /\ \A i \in 1..Len(c.columns), r \in 1..Height(df) :
            ~HasDelimiter(df.data[c.columns[i]][r], c.delimiter)

\* C22: split_column by d into k columns, applied to the concat_columns of k
\* columns by d whose values do not contain d, yields in every row the
\* stringified values of the concatenated columns.
C22_ConcatSplitRoundTrip ==
    [][(OpReady /\ RoundTripStep(op_step, op_step')) =>
            /\ pc' = "loop"
            /\ \A i \in 1..Len(op_step.columns), r \in 1..Height(df) :
                    df'.data[op_step'.into[i]][r]
                        = CastValue("str", df.data[op_step.columns[i]][r])]_vars

\* the set of rows of a frame
RowSet(d) == Range(to_dicts(d))

\* the first step was a pivot_wider and the next step is the pivot_longer
\* that matches it
PivotRoundTripStep(w, l) ==
    /\ step_no = 1
    /\ w.op = "pivot_wider" /\ l.op = "pivot_longer"
    /\ "keys" \in DOMAIN w /\ "id_vars" \in DOMAIN l /\ l.id_vars = w.keys
    /\ "variable_name" \in DOMAIN l /\ l.variable_name = w.column
    /\ "value_name" \in DOMAIN l /\ l.value_name = w.values

\* C23: pivot_wider followed by the matching pivot_longer gives back the
\* rows of the original frame, in some order.
C23_PivotRoundTrip ==
    [][(OpReady /\ PivotRoundTripStep(op_step, op_step')) =>
            /\ pc' = "loop"
            /\ RowSet(df') = RowSet(_ensure_dataframe(input_payload).df)]_vars

\* the 1-based positions of the rows whose 0-based index is offset modulo n
EveryNth(d, n, offset) ==
    SelectSeq(Positions(d), LAMBDA i : (i - 1) % n = offset % n)

\* C24: take_every with n >= 1 keeps exactly the rows whose 0-based index is
\* congruent to offset modulo n, in their order, and every column as it was,
\* a column named row_index included; with n < 1 it fails.
C24_TakeEvery ==
    [][(OpReady /\ op_step'.op = "take_every") =>
            IF op_step'.n.n < 1 THEN pc' = "raised" /\ raised'.exc = DSLExecutionError
            ELSE /\ pc' = "loop"
                 /\ df' = take(df, EveryNth(df, op_step'.n.n,
                                            Get(op_step', "offset", PyInt(0)).n))]_vars

\* the step at hand is a filter_expr whose expression has a value in every row
FilterHasValues ==
    /\ AtOp("filter_expr") /\ "expr" \in DOMAIN CurStep
    /\ \A i \in 1..Height(df) : ~IsExc(_eval_expr(CurStep.expr, RowEnv(to_dicts(df)[i], i - 1)))

\* the 1-based positions of the rows in which the expression, evaluated on
\* the row's own cells and its 0-based index, is truthy
TruthyRows ==
    SelectSeq(Positions(df),
              LAMBDA i : Truthy(_eval_expr(CurStep.expr, RowEnv(to_dicts(df)[i], i - 1)).v))

\* C25: filter_expr returns exactly the rows in which the expression is
\* truthy, in their order and with every column as it was; the value for a
\* row is computed from that row's cells and row_index alone.
C25_FilterExprRows ==
    [][FilterHasValues => (pc' = "loop" /\ df' = take(df, TruthyRows))]_vars

-----------------------------------------------------------------------------
(* scan alone: its seeding, its range checks and its iterations, as the
   only step of a program *)

Incr(id) == Text(BinOp(Name(id), "Add", Constant(PyInt(1))))

\* a scan over the state n, m seeded by init and by the given entries
SeededScan(entries, update) ==
    [op |-> "scan", init |-> [n |-> PyInt(0), m |-> PyInt(5)], init_from_rows |-> entries,
     steps |-> PyInt(2), update |-> update, emit |-> Var("n"), as |-> "value"]

ScanStepSet ==
    { SeededScan(<< [var |-> "n", column |-> "a", row |-> r] >>, << <<"n", Incr("n")>> >>) :
        r \in -1..MaxRows }
    \union
    { SeededScan(<< [var |-> "n", column |-> "a", row |-> 0],
                    [var |-> "n", column |-> "a", row |-> 1] >>, <<>>),
      SeededScan(<< [var |-> "k", column |-> "a", row |-> 0],
                    [var |-> "m", column |-> "a", row |-> -1] >>, <<>>),
      SeededScan(<< [var |-> "k", column |-> "a", row |-> 0] >>,
                 << <<"c", Var("k")>>, <<"m", Var("n")>> >>),
      SeededScan(<< [var |-> "n", column |-> "a", row |-> 0, cast |-> "str"] >>, <<>>),
      SeededScan(<< [var |-> "n", column |-> "zz", row |-> 0] >>, <<>>),
      SeededScan(<<>>, << <<"n", Var("m")>>, <<"m", Var("n")>> >>),
      [op |-> "scan", init_from_rows |-> << [var |-> "n", column |-> "a", row |-> 0] >>,
       steps |-> PyInt(1), update |-> << <<"c", Var("n")>> >>, emit |-> Var("n")],
      FibScan }

ScanPayloads ==
    {[media_type |-> "json",
      data |-> [kind |-> "list", keys |-> <<"a">>, rows |-> [i \in 1..Len(q) |-> [a |-> q[i]]]]] :
        q \in SeqsUpTo({PyNone, PyInt(1), PyInt(2)}, MaxRows)}

InitScan ==
    /\ input_payload \in ScanPayloads
    /\ dsl \in {[steps |-> <<s>>] : s \in ScanStepSet}
    /\ null_mask_ok = TRUE
    /\ desc_nulls_last = TRUE
    /\ op_step = NoStep
    /\ repeated = FALSE
    /\ twin = NoTwin
    /\ funcs = _ALLOWED_FUNCS
    /\ threads = <<>>
    /\ pc = "decode"
    /\ df = NoFrame
    /\ step_no = 0
    /\ applied = <<>>
    /\ scan = NoScan
    /\ result = NoResult
    /\ raised = NoFailure
    /\ expr = EmptyText
    /\ env = <<>>
    /\ value = Pending

NextScan ==
    \/ Decode
    \/ ScanBegin
    \/ ScanIter
    \/ ScanEnd
    \/ Return

SpecScan == InitScan /\ [][NextScan]_vars

\* the entries of init_from_rows of the scan step at hand
SeedEntries == Get(CurStep, "init_from_rows", <<>>)

\* the variables the entries name
SeedVars == {SeedEntries[i].var : i \in 1..Len(SeedEntries)}

\* the last entry that names variable v
LastEntry(v) ==
    SeedEntries[CHOOSE i \in 1..Len(SeedEntries) :
                    /\ SeedEntries[i].var = v
                    /\ \A j \in (i + 1)..Len(SeedEntries) : SeedEntries[j].var # v]

\* an entry that reads a cell as it is: its column exists and it asks for no
\* conversion
PlainEntry(e) == e.column \in Range(df.columns) /\ "cast" \notin DOMAIN e

\* some entry names a row outside the frame
SeedRowOutOfRange ==
    \E i \in 1..Len(SeedEntries) : SeedEntries[i].row < 0 \/ SeedEntries[i].row >= Height(df)

\* C26: when scan enters its loop the state holds the variables of init and
\* of init_from_rows; a variable named in init_from_rows holds the cell at
\* the entry's column and 0-based row, whatever init gave it, and any other
\* variable holds its init value. An entry whose row is below 0 or not below
\* the height of the frame makes the step fail before any iteration.
C26_ScanSeeding ==
    [][AtOp("scan") =>
        /\ SeedRowOutOfRange => (pc' = "raised" /\ scan' = scan)
        /\ pc' = "scan" =>
            /\ scan'.k = 0
            /\ DOMAIN scan'.state = DOMAIN Get(CurStep, "init", <<>>) \union SeedVars
            /\ \A v \in DOMAIN scan'.state :
                IF v \in SeedVars
                THEN PlainEntry(LastEntry(v)) =>
                        scan'.state[v] = df.data[LastEntry(v).column][LastEntry(v).row + 1]
                ELSE scan'.state[v] = CurStep.init[v]]_vars

\* a scan has entered its loop with n, which init sets to 0, seeded from a
\* cell that holds another value
C26_Witness ==
    /\ pc = "scan" /\ scan.k = 0
    /\ "n" \in SeedVars /\ "n" \in DOMAIN Get(CurStep, "init", <<>>)
    /\ PlainEntry(LastEntry("n"))
    /\ scan.state["n"] = PyInt(2)

-----------------------------------------------------------------------------
(* the decoder alone: execute_dsl with a program of no step, over payloads
   with and without media_type *)

MaxText == 3

DecodeChars == {"[", "]", ",", "a", "1", "\n"}

\* longer texts: tables in JSON and in CSV, JSON values that are no table,
\* a list that starts with a dict and goes on with a number, lines with more
\* and with fewer fields than the header, the other separator characters
DecodeTexts ==
    { <<"[", "{", "\"", "a", "\"", ":", "1", "}", "]">>,
      <<"[", "{", "\"", "a", "\"", ":", "1", "}", ",", " ", "{", "\"", "a", "\"", ":", "2", "}", "]">>,
      <<"[", "{", "\"", "a", "\"", ":", "\"", "b", "\"", "}", "]">>,
      <<" ", "[", " ", "]", "\n">>,
      <<"{", "\"", "a", "\"", ":", "1", "}">>,
      <<"[", "1", ",", "2", "]">>,
      <<"[", "{", "}", ",", "1", "]">>,
      <<"\"", "a", "\"">>,
      <<"a", ",", "b", "\n", "1", ",", "2">>,
      <<"a", ",", "b", "\n", "1", ",", "2", "\n", "b", ",", "2", "\n">>,
      <<"a", ",", "b", "\n", "1">>,
      <<"a", "\n", "1", ",", "2">>,
      <<"a", ";", "b">>, <<"a", "|", "b">>, <<"a", "\t", "b">>,
      <<"a", "\n", "b">>, <<"1", "2">> }

\* texts on which the CSV reader is modelled: no empty line, and a header of
\* distinct names
CsvModelled(c) ==
    /\ Len(Lines(c)) > 0
    /\ \A i \in 1..Len(Lines(c)) : Lines(c)[i] # <<>>
    /\ \A k \in 1..Len(SplitOn(Lines(c)[1], <<",">>, <<>>)) :
            IsName(SplitOn(Lines(c)[1], <<",">>, <<>>)[k])
    /\ NoDuplicates(SplitOn(Lines(c)[1], <<",">>, <<>>))

\* the text is JSON for an empty list or for a list of objects
TableText(c) ==
    /\ json_loads(c).ok /\ json_loads(c).val.j = "list"
    /\ \A i \in 1..Len(json_loads(c).val.items) : json_loads(c).val.items[i].j = "dict"

DecodePayloads ==
    {[data |-> [kind |-> "str", chars |-> c]] :
        c \in {t \in SeqsUpTo(DecodeChars, MaxText) \union DecodeTexts :
                    LooksLikeCsv(t) => (TableText(t) \/ CsvModelled(t))}}
    \union {[data |-> [kind |-> "list", keys |-> <<"a">>, rows |-> r]] :
                r \in {<<>>, <<[a |-> PyInt(1)]>>}}
    \union {[media_type |-> m, data |-> [kind |-> "list", keys |-> <<"a">>, rows |-> <<>>]] :
                m \in {"text", "json"}}
    \union {[media_type |-> m, data |-> [kind |-> "str", chars |-> <<"[", "]">>]] :
                m \in {"text", "json", "xml"}}

InitDecode ==
    /\ input_payload \in DecodePayloads
    /\ dsl = [steps |-> <<>>]
    /\ null_mask_ok = TRUE
    /\ desc_nulls_last = TRUE
    /\ op_step = NoStep
    /\ repeated = FALSE
    /\ twin = NoTwin
    /\ funcs = _ALLOWED_FUNCS
    /\ threads = <<>>
    /\ pc = "decode"
    /\ df = NoFrame
    /\ step_no = 0
    /\ applied = <<>>
    /\ scan = NoScan
    /\ result = NoResult
    /\ raised = NoFailure
    /\ expr = EmptyText
    /\ env = <<>>
    /\ value = Pending

NextDecode ==
    \/ Decode
    \/ Return

SpecDecode == InitDecode /\ [][NextDecode]_vars

\* the payload names no media type and carries a text
AutoInput == "media_type" \notin DOMAIN input_payload /\ input_payload.data.kind = "str"

\* the text of the payload is JSON for a table
JsonTable == TableText(input_payload.data.chars)

\* the CSV reader, tried because a separator occurs, reads the text
CsvTable ==
    /\ LooksLikeCsv(input_payload.data.chars)
    /\ ~IsExc(read_csv(input_payload.data.chars))

\* C27: a text without media_type is decoded as JSON if and only if it is
\* JSON for an empty list or a list of objects; otherwise as CSV if it
\* contains a separator character and the CSV reader accepts it; otherwise
\* as the single column `line` of its lines. Data that is no text, with
\* media_type absent or "text", fails with the input error.
C27_DecoderOrder ==
    [][pc = "decode" =>
        /\ AutoInput =>
            /\ pc' = "loop"
            /\ df' = IF JsonTable
                     THEN from_dicts(json_loads(input_payload.data.chars).val.items).df
                     ELSE IF CsvTable THEN read_csv(input_payload.data.chars).df
                     ELSE TextFrame(input_payload.data.chars).df
        /\ (input_payload.data.kind # "str"
                /\ Get(input_payload, "media_type", "text") = "text") =>
            (pc' = "raised" /\ raised'.exc = DSLExecutionError)]_vars

\* a text that is JSON, but no table, and contains a separator has been
\* decoded by the CSV reader
C27_Witness ==
    /\ pc = "loop" /\ AutoInput
    /\ json_loads(input_payload.data.chars).ok /\ ~JsonTable /\ CsvTable
    /\ df = read_csv(input_payload.data.chars).df
    /\ df.columns # <<"line">>

\* the expression is a call of the name f with arguments that are constants
\* or names other than f
PlainCall(f) ==
    /\ expr.src = "tree" /\ expr.tree.node = "Call"
    /\ expr.tree.func = Name(f)
    /\ \A i \in 1..Len(expr.tree.args) :
            expr.tree.args[i].node \in {"Constant", "Name"} /\ expr.tree.args[i] # Name(f)

\* C28: a call f(args) is dispatched to the built-in f, whatever the
\* environment binds f to: its value is the one obtained with f bound to the
\* built-in. A name that is no built-in cannot be called, bound or not.
C28_CallDispatch ==
    value # Pending =>
        \A f \in DOMAIN env \union {"zz"} :
            PlainCall(f) =>
                IF f \in DOMAIN _ALLOWED_FUNCS
                THEN value = _eval_expr(expr, Merge(env, (f :> _ALLOWED_FUNCS[f])))
                ELSE value.exc = DSLExecutionError

\* len("a") has been evaluated to 1 for a row whose column len holds 3
C28_Witness ==
    /\ value = Ok(PyInt(1))
    /\ PlainCall("len")
    /\ env["len"] = PyInt(3)

\* the expression is an and/or over operands
BoolExpr == expr.src = "tree" /\ expr.tree.node = "BoolOp" /\ expr.tree.op \in {"And", "Or"}

\* the value of operand i, evaluated on its own
Operand(i) == _eval(expr.tree.values[i], env)

\* operand i has a value, and that value settles the result: a falsy one
\* for and, a truthy one for or
Decides(i) == ~IsExc(Operand(i)) /\ (Truthy(Operand(i).v) <=> expr.tree.op = "Or")

\* operand i is the first that decides, the operands before it having values
FirstDeciding(i) ==
    /\ Decides(i)
    /\ \A j \in 1..(i - 1) : ~IsExc(Operand(j)) /\ ~Decides(j)

\* C29: and/or take their operands from left to right and stop at the first
\* that decides: the result is then False for and, True for or, whatever the
\* later operands are, even ones that would raise. With no deciding operand
\* the result is True for and, False for or. The result is a boolean, never
\* an operand.
C29_ShortCircuitBoolean ==
    (value # Pending /\ BoolExpr) =>
        /\ \A i \in 1..Len(expr.tree.values) :
                FirstDeciding(i) => value = Ok(PyBool(expr.tree.op = "Or"))
        /\ (\A i \in 1..Len(expr.tree.values) : ~IsExc(Operand(i)) /\ ~Decides(i))
                => value = Ok(PyBool(expr.tree.op = "And"))
        /\ ~IsExc(value) => value.v.t = "bool"

\* an or whose first operand is the integer 2 and whose last operand would
\* raise has been evaluated to True
C29_Witness ==
    /\ BoolExpr /\ expr.tree.op = "Or"
    /\ Operand(1) = Ok(PyInt(2))
    /\ IsExc(Operand(Len(expr.tree.values)))
    /\ value = Ok(PyBool(TRUE))

\* the variables the update entries of the scan step at hand assign
UpdateKeys ==
    {Get(CurStep, "update", <<>>)[i][1] : i \in 1..Len(Get(CurStep, "update", <<>>))}

\* the state the scan at hand was seeded with
Seeded == ScanSetup(df, CurStep).state

\* C30: every iteration of a scan leaves a variable without update entry at
\* its seeded value, removes no variable, and ends with the seeded variables
\* and the update keys as the variables of the state.
C30_ScanStateFrame ==
    [][ScanStepped =>
        /\ DOMAIN scan.state \subseteq DOMAIN scan'.state
        /\ DOMAIN scan'.state = DOMAIN Seeded \union UpdateKeys
        /\ \A v \in DOMAIN Seeded \ UpdateKeys : scan'.state[v] = Seeded[v]]_vars

\* after two iterations the state holds n and k, which no update entry
\* names, next to c, which only an update entry brought in
C30_Witness ==
    /\ pc = "scan" /\ scan.k = 2
    /\ {"n", "k"} \subseteq DOMAIN Seeded \ UpdateKeys
    /\ "c" \in DOMAIN scan.state \ DOMAIN Seeded
    /\ scan.state["k"] = PyInt(2)

====
